---- MODULE Spec2Model ----
(***************************************************************************)
(* A model of the 8088 instruction dispatcher Cpu::execute_instruction     *)
(* (src/src/cpu_808x/execute.rs).  One call of execute_instruction is one  *)
(* atomic step: prologue, return-address detection, REP classification,    *)
(* off-rails detection, the opcode arm, epilogue, result classification.   *)
(*                                                                         *)
(* The Cpu aggregate is the record `cpu`; its bus memory is cpu.mem.  The  *)
(* locals of execute_instruction (jump, exception, unhandled) are kept in  *)
(* the record after the call so that properties can read them, together   *)
(* with cpu.trace, the ordered list of bus/queue/REP events of the call.   *)
(*                                                                         *)
(* The helpers the dispatcher calls live in files of the repository that   *)
(* are not under src/ (biu.rs, jump.rs, stack.rs, string.rs, alu.rs ...);  *)
(* they are modelled from spec.md and marked so in MODEL_MAP.json.         *)
(***************************************************************************)
EXTENDS Integers, Sequences, FiniteSets, TLC

VARIABLES
    cpu,              \* the Cpu aggregate (registers, flags, REP state, BIU, bus)
    i,                \* self.i, the decoded instruction of the last call
    result,           \* ExecutionResult of the last call ("None" before the first)
    pre,              \* cpu at entry of the last call
    log,              \* one entry per call so far
    prog,             \* the program decoded so far: linear address -> instruction
    overflow_checks   \* build profile: TRUE = debug (u16 `+` panics on overflow)

vars == <<cpu, i, result, pre, log, prog, overflow_checks>>

----------------------------------------------------------------------------
(* Bounds of the model *)

MaxInstr == 1
MaxSeq == 2
MaxCalls == 5
MaxCX == 2
MaxStack == 2
MaxRails == 8
MaxCallRun == 6
MaxPrologue == 3
MaxOperand == 2
MaxLoop == 5
MaxLoopProg == 2
MaxJcc == 1
MaxString == 1
MaxDiv == 1
MaxStringCalls == 2

----------------------------------------------------------------------------
(* Fixed-width arithmetic *)

W8 == 2^8
W16 == 2^16
W20 == 2^20

Min(a, b) == IF a < b THEN a ELSE b

\* u16::wrapping_add / wrapping_sub
wrapping_add(a, b) == (a + b) % W16
wrapping_sub(a, b) == (a - b + W16) % W16

\* `x as i8` and `x as i16`: the signed reading of an 8/16-bit pattern
AsI8(x) == IF x >= 128 THEN x - 256 ELSE x
AsI16(x) == IF x >= 32768 THEN x - 65536 ELSE x

\* util::relative_offset_u16(base, offset: i16)
relative_offset_u16(base, offset) == (base + offset + W16) % W16

\* Cpu::calc_linear_address(segment, offset)
calc_linear_address(seg, off) == ((seg * 16) + off) % W20

LowByte(x) == x % 256
HighByte(x) == (x \div 256) % 256

\* number of one bits of the low 8 bits of x
RECURSIVE Ones(_, _)
Ones(x, n) == IF n = 0 THEN 0 ELSE (x % 2) + Ones(x \div 2, n - 1)
ParityEven(x) == Ones(x % 256, 8) % 2 = 0

----------------------------------------------------------------------------
(* Flags *)

Flags == {"CF", "PF", "AF", "ZF", "SF", "TF", "IF", "DF", "OF"}

get_flag(c, f) == f \in c.flags
set_flag(c, f) == [c EXCEPT !.flags = @ \cup {f}]
clear_flag(c, f) == [c EXCEPT !.flags = @ \ {f}]
set_flag_state(c, f, b) == IF b THEN set_flag(c, f) ELSE clear_flag(c, f)

----------------------------------------------------------------------------
(* Registers *)

Reg16 == {"AX", "CX", "DX", "BX", "SP", "BP", "SI", "DI", "ES", "CS", "SS", "DS", "IP"}
Reg8 == {"AL", "CL", "DL", "BL", "AH", "CH", "DH", "BH"}

\* REGISTER16_LUT[opcode & 7]
REGISTER16_LUT == <<"AX", "CX", "DX", "BX", "SP", "BP", "SI", "DI">>

get_register16(c, r) ==
    CASE r = "AX" -> c.ax [] r = "CX" -> c.cx [] r = "DX" -> c.dx [] r = "BX" -> c.bx
      [] r = "SP" -> c.sp [] r = "BP" -> c.bp [] r = "SI" -> c.si [] r = "DI" -> c.di
      [] r = "ES" -> c.es [] r = "CS" -> c.cs [] r = "SS" -> c.ss [] r = "DS" -> c.ds
      [] r = "IP" -> c.ip

set_register16(c, r, v) ==
    CASE r = "AX" -> [c EXCEPT !.ax = v] [] r = "CX" -> [c EXCEPT !.cx = v]
      [] r = "DX" -> [c EXCEPT !.dx = v] [] r = "BX" -> [c EXCEPT !.bx = v]
      [] r = "SP" -> [c EXCEPT !.sp = v] [] r = "BP" -> [c EXCEPT !.bp = v]
      [] r = "SI" -> [c EXCEPT !.si = v] [] r = "DI" -> [c EXCEPT !.di = v]
      [] r = "ES" -> [c EXCEPT !.es = v] [] r = "CS" -> [c EXCEPT !.cs = v]
      [] r = "SS" -> [c EXCEPT !.ss = v] [] r = "DS" -> [c EXCEPT !.ds = v]
      [] r = "IP" -> [c EXCEPT !.ip = v]

\* Cpu::reg8to16: the 16-bit register an 8-bit register is half of
reg8to16(r) ==
    CASE r \in {"AL", "AH"} -> "AX" [] r \in {"CL", "CH"} -> "CX"
      [] r \in {"DL", "DH"} -> "DX" [] r \in {"BL", "BH"} -> "BX"

IsHigh8(r) == r \in {"AH", "CH", "DH", "BH"}

get_register8(c, r) ==
    IF IsHigh8(r) THEN HighByte(get_register16(c, reg8to16(r)))
    ELSE LowByte(get_register16(c, reg8to16(r)))

set_register8(c, r, v) ==
    LET w == get_register16(c, reg8to16(r)) IN
    IF IsHigh8(r) THEN set_register16(c, reg8to16(r), v * 256 + LowByte(w))
    ELSE set_register16(c, reg8to16(r), HighByte(w) * 256 + v)

decrement_register16(c, r) == set_register16(c, r, wrapping_sub(get_register16(c, r), 1))

----------------------------------------------------------------------------
(* Trace of the current call *)

Event(c, name, x, y) == [ev |-> name, cyc |-> c.cycles, a |-> x, b |-> y]
Emit(c, name, x, y) == [c EXCEPT !.trace = Append(@, Event(c, name, x, y))]

EventsNamed(c, name) == {k \in 1..Len(c.trace) : c.trace[k].ev = name}
Happened(c, name) == EventsNamed(c, name) # {}

----------------------------------------------------------------------------
(* Bus and BIU (bus interface unit, prefetch queue) *)

QueueMax == 4

MemRead(c, a) == IF a \in DOMAIN c.mem THEN c.mem[a] ELSE 0

MemWrite(c, a, v) ==
    [c EXCEPT !.mem = [x \in (DOMAIN c.mem) \cup {a} |-> IF x = a THEN v ELSE c.mem[x]]]

\* cycles(n): n T-states.  While fetch is running and the queue has room the
\* BIU completes one code fetch every four T-states.
cycles(c, n) ==
    IF c.fetch_suspended \/ Len(c.queue) >= QueueMax
    THEN [c EXCEPT !.cycles = @ + n]
    ELSE LET total == c.biu_t + n
             got   == Min(total \div 4, QueueMax - Len(c.queue))
             bytes == [k \in 1..got |-> (c.fetch_pc + k - 1) % W20]
         IN  [c EXCEPT !.cycles = @ + n,
                       !.queue = @ \o bytes,
                       !.fetch_pc = (@ + got) % W20,
                       !.biu_t = IF Len(c.queue) + got >= QueueMax THEN 0 ELSE total % 4,
                       !.last_queue_op = IF got > 0 THEN "Idle" ELSE @]

cycle(c) == cycles(c, 1)

\* cycles_nx(n): n cycles, the last one deferred to the next instruction as its RNI
cycles_nx(c, n) == [cycles(c, n - 1) EXCEPT !.nx = TRUE]

biu_suspend_fetch(c) == [Emit(c, "suspend", 0, 0) EXCEPT !.fetch_suspended = TRUE]

\* biu_queue_flush: empty the queue and restart code fetch at the CS:IP the
\* CPU holds when it is called
biu_queue_flush(c) ==
    [Emit(c, "flush", c.cs, c.ip) EXCEPT
        !.queue = <<>>,
        !.fetch_pc = calc_linear_address(c.cs, c.ip),
        !.fetch_suspended = FALSE,
        !.biu_t = 0,
        !.last_queue_op = "Flush"]

biu_halt(c) == [c EXCEPT !.fetch_suspended = TRUE, !.biu_halted = TRUE]

\* an EU bus cycle: four T-states during which the BIU cannot fetch code
bus_cycle(c) == [c EXCEPT !.cycles = @ + 4]

biu_read_u8(c, addr) == Emit(bus_cycle(c), "read", addr, MemRead(c, addr))

biu_write_u8(c, addr, v) == MemWrite(Emit(bus_cycle(c), "write", addr, v), addr, v)

\* 16-bit accesses are two 8-bit bus cycles, low byte first
ReadU16(c, seg, off) ==
    MemRead(c, calc_linear_address(seg, off))
      + 256 * MemRead(c, calc_linear_address(seg, wrapping_add(off, 1)))

biu_read_u16(c, seg, off) ==
    biu_read_u8(biu_read_u8(c, calc_linear_address(seg, off)),
                calc_linear_address(seg, wrapping_add(off, 1)))

biu_write_u16(c, seg, off, v) ==
    biu_write_u8(biu_write_u8(c, calc_linear_address(seg, off), LowByte(v)),
                 calc_linear_address(seg, wrapping_add(off, 1)), HighByte(v))

\* I/O ports: a bus cycle on the I/O address space
IoRead(c, port) == IF port \in DOMAIN c.io THEN c.io[port] ELSE 255

biu_io_read_u8(c, port) == Emit(bus_cycle(c), "io_read", port, IoRead(c, port))

biu_io_write_u8(c, port, v) ==
    [Emit(bus_cycle(c), "io_write", port, v)
        EXCEPT !.io = [x \in (DOMAIN c.io) \cup {port} |-> IF x = port THEN v ELSE c.io[x]]]

\* 16-bit I/O is two 8-bit cycles, on port P then on port P+1
biu_io_write_u16(c, port, v) ==
    biu_io_write_u8(biu_io_write_u8(c, port, LowByte(v)), wrapping_add(port, 1), HighByte(v))

----------------------------------------------------------------------------
(* Stack *)

\* push_u16: SP -= 2, then the word is written at SS:SP
push_u16(c, v) ==
    LET c1 == [c EXCEPT !.sp = wrapping_sub(@, 2)]
    IN  biu_write_u16(Emit(c1, "push", c1.sp, v), c1.ss, c1.sp, v)

\* push_u8 (undocumented 0xFE forms): SP -= 2, only the low byte is written
push_u8(c, v) ==
    LET c1 == [c EXCEPT !.sp = wrapping_sub(@, 2)]
    IN  biu_write_u8(Emit(c1, "push8", c1.sp, v), calc_linear_address(c1.ss, c1.sp), v)

\* the word pop_u16 returns, and its effect on the Cpu
PopValue(c) == ReadU16(c, c.ss, c.sp)
pop_u16(c) == [biu_read_u16(Emit(c, "pop", c.sp, PopValue(c)), c.ss, c.sp)
                 EXCEPT !.sp = wrapping_add(@, 2)]

\* push_register16: PUSH SP stores the new (post-decrement) SP on the 8088
push_register16(c, r) ==
    push_u16(c, IF r = "SP" THEN wrapping_sub(c.sp, 2) ELSE get_register16(c, r))

\* pop_register16: the word at SS:SP goes to the register, then SP += 2
\* ("POP reads before increment"), so POP SP ends with the popped word + 2
pop_register16(c, r) ==
    [set_register16(biu_read_u16(Emit(c, "pop", c.sp, PopValue(c)), c.ss, c.sp), r, PopValue(c))
        EXCEPT !.sp = wrapping_add(@, 2)]

\* the flags word: bit 1 and bits 12-15 read as 1 on the 8088
FlagBit(f) ==
    CASE f = "CF" -> 1 [] f = "PF" -> 4 [] f = "AF" -> 16 [] f = "ZF" -> 64
      [] f = "SF" -> 128 [] f = "TF" -> 256 [] f = "IF" -> 512 [] f = "DF" -> 1024
      [] f = "OF" -> 2048

RECURSIVE SumBits(_)
SumBits(fs) ==
    IF fs = {} THEN 0
    ELSE LET f == CHOOSE x \in fs : TRUE IN FlagBit(f) + SumBits(fs \ {f})

FlagsWord(c) == 61442 + SumBits(c.flags)
FlagsOfWord(w) == {f \in Flags : (w \div FlagBit(f)) % 2 = 1}

push_flags(c) == push_u16(c, FlagsWord(c))
pop_flags(c) == [pop_u16(c) EXCEPT !.flags = FlagsOfWord(PopValue(c))]

\* release(disp): RET imm16 frees disp bytes of stack
release(c, disp) == [c EXCEPT !.sp = wrapping_add(@, disp)]

----------------------------------------------------------------------------
(* Shadow call stack and the MEM_RET_BIT attribute of the bus *)

CPU_CALL_STACK_LEN == 48

\* push_call_stack(entry, cs, ip): record the call, mark cs:ip as a return target
push_call_stack(c, kind, ret_cs, ret_ip, call_cs, call_ip) ==
    LET e    == [kind |-> kind, ret_cs |-> ret_cs, ret_ip |-> ret_ip,
                 call_cs |-> call_cs, call_ip |-> call_ip]
        keep == IF Len(c.call_stack) >= CPU_CALL_STACK_LEN THEN Tail(c.call_stack)
                ELSE c.call_stack
    IN  [c EXCEPT !.call_stack = Append(keep, e),
                  !.ret_bits = @ \cup {calc_linear_address(ret_cs, ret_ip)}]

EntryAddr(e) == calc_linear_address(e.ret_cs, e.ret_ip)

\* rewind_call_stack(addr): unwind to below the newest entry that returns to addr
rewind_call_stack(c, addr) ==
    LET hits == {k \in 1..Len(c.call_stack) : EntryAddr(c.call_stack[k]) = addr}
    IN  IF hits = {} THEN c
        ELSE LET top == CHOOSE k \in hits : \A j \in hits : j <= k
             IN  [c EXCEPT !.call_stack = SubSeq(@, 1, top - 1)]

----------------------------------------------------------------------------
(* ALU *)

RECURSIVE BitOp(_, _, _, _)
\* bitwise op ("AND", "OR", "XOR") on the low n bits
BitOp(op, a, b, n) ==
    IF n = 0 THEN 0
    ELSE LET x == a % 2
             y == b % 2
             z == CASE op = "AND" -> x * y
                    [] op = "OR"  -> IF x + y > 0 THEN 1 ELSE 0
                    [] op = "XOR" -> (x + y) % 2
         IN  z + 2 * BitOp(op, a \div 2, b \div 2, n - 1)

Bits(wide) == IF wide THEN 16 ELSE 8
Modulus(wide) == IF wide THEN W16 ELSE W8
SignBit(x, wide) == x >= Modulus(wide) \div 2

\* S, Z, P from a result
set_szp_flags_from_result(c, r, wide) ==
    LET c1 == set_flag_state(c, "SF", SignBit(r, wide))
        c2 == set_flag_state(c1, "ZF", r = 0)
    IN  set_flag_state(c2, "PF", ParityEven(r))

\* the value math_op8/math_op16 returns
MathResult(c, mn, a, b, wide) ==
    LET m   == Modulus(wide)
        cin == IF get_flag(c, "CF") THEN 1 ELSE 0
    IN  CASE mn = "ADD" -> (a + b) % m
          [] mn = "ADC" -> (a + b + cin) % m
          [] mn \in {"SUB", "CMP"} -> (a - b + m) % m
          [] mn = "SBB" -> (a - b - cin + 2 * m) % m
          [] mn \in {"AND", "TEST"} -> BitOp("AND", a, b, Bits(wide))
          [] mn = "OR"  -> BitOp("OR", a, b, Bits(wide))
          [] mn = "XOR" -> BitOp("XOR", a, b, Bits(wide))
          [] mn = "INC" -> (a + 1) % m
          [] mn = "DEC" -> (a - 1 + m) % m
          [] mn = "NEG" -> (m - a) % m
          [] mn = "NOT" -> m - 1 - a

\* the C, A, O effects of math_op8/math_op16 on top of S, Z, P (szp)
MathFlags(szp, mn, a, b, r, wide) ==
    LET m   == Modulus(wide)
        cin == IF get_flag(szp, "CF") THEN 1 ELSE 0
        sa  == SignBit(a, wide)
        sb  == SignBit(b, wide)
        sr  == SignBit(r, wide)
    IN  CASE mn \in {"ADD", "ADC"} ->
               LET k == IF mn = "ADC" THEN cin ELSE 0 IN
               set_flag_state(set_flag_state(set_flag_state(szp,
                   "CF", a + b + k >= m),
                   "AF", (a % 16) + (b % 16) + k >= 16),
                   "OF", sa = sb /\ sr # sa)
          [] mn \in {"SUB", "CMP", "SBB"} ->
               LET k == IF mn = "SBB" THEN cin ELSE 0 IN
               set_flag_state(set_flag_state(set_flag_state(szp,
                   "CF", a < b + k),
                   "AF", (a % 16) < (b % 16) + k),
                   "OF", sa # sb /\ sr # sa)
          [] mn \in {"AND", "TEST", "OR", "XOR"} ->
               clear_flag(clear_flag(clear_flag(szp, "CF"), "OF"), "AF")
          [] mn = "INC" ->
               set_flag_state(set_flag_state(szp, "AF", a % 16 = 15), "OF", r = m \div 2)
          [] mn = "DEC" ->
               set_flag_state(set_flag_state(szp, "AF", a % 16 = 0), "OF", a = m \div 2)
          [] mn = "NEG" ->
               set_flag_state(set_flag_state(set_flag_state(szp,
                   "CF", a # 0), "AF", a % 16 # 0), "OF", a = m \div 2)

\* the flag effects of math_op8/math_op16 (NOT changes no flag)
math_op(c, mn, a, b, wide) ==
    IF mn = "NOT" THEN c
    ELSE MathFlags(set_szp_flags_from_result(c, MathResult(c, mn, a, b, wide), wide),
                   mn, a, b, MathResult(c, mn, a, b, wide), wide)

\* the carry and the value as one (bits+1)-bit word, for RCL and RCR
WithCarry(r, wide) == r.cf * Modulus(wide) + r.v
SplitCarry(w, wide) == [v |-> w % Modulus(wide), cf |-> w \div Modulus(wide)]

\* w rotated left by k within a word of b bits (0 <= k < b)
RotateLeft(w, k, b) == ((w % (2^(b - k))) * (2^k)) + (w \div (2^(b - k)))
RotateRight(w, k, b) == (w \div (2^k)) + ((w % (2^k)) * (2^(b - k)))

\* the value and carry after n single-bit steps of ROL ROR RCL RCR SHL SHR SAR
\* on r = [v, cf].  The count is used in full (no masking on the 8088): n
\* single-bit rotations of a b-bit word are one rotation by n mod b, and a
\* shift by more than the width leaves nothing of the value.
ShiftBits(mn, r, n, wide) ==
    LET b == Bits(wide)
        m == Modulus(wide)
        s == IF SignBit(r.v, wide) THEN 1 ELSE 0
    IN  IF n = 0 THEN r
        ELSE CASE mn = "ROL" ->
                    [v |-> RotateLeft(r.v, n % b, b), cf |-> RotateLeft(r.v, n % b, b) % 2]
               [] mn = "ROR" ->
                    [v |-> RotateRight(r.v, n % b, b),
                     cf |-> RotateRight(r.v, n % b, b) \div (m \div 2)]
               [] mn = "RCL" ->
                    SplitCarry(RotateLeft(WithCarry(r, wide), n % (b + 1), b + 1), wide)
               [] mn = "RCR" ->
                    SplitCarry(RotateRight(WithCarry(r, wide), n % (b + 1), b + 1), wide)
               [] mn = "SHL" ->
                    IF n > b THEN [v |-> 0, cf |-> 0]
                    ELSE [v |-> (r.v % (2^(b - n))) * (2^n), cf |-> (r.v \div (2^(b - n))) % 2]
               [] mn = "SHR" ->
                    IF n > b THEN [v |-> 0, cf |-> 0]
                    ELSE [v |-> r.v \div (2^n), cf |-> (r.v \div (2^(n - 1))) % 2]
               [] mn = "SAR" ->
                    IF n >= b THEN [v |-> s * (m - 1), cf |-> s]
                    ELSE [v |-> (r.v \div (2^n)) + s * (m - (2^(b - n))),
                          cf |-> (r.v \div (2^(n - 1))) % 2]

CarryIn(c) == IF get_flag(c, "CF") THEN 1 ELSE 0

\* the value bitshift_op8/bitshift_op16 returns
BitshiftResult(c, mn, v, count, wide) ==
    ShiftBits(mn, [v |-> v, cf |-> CarryIn(c)], count, wide).v

\* OF after a shift or rotate that produced r: the sign changed in the last bit
ShiftOverflow(mn, r, wide) ==
    CASE mn \in {"ROL", "RCL", "SHL"} -> SignBit(r.v, wide) # (r.cf = 1)
      [] mn \in {"ROR", "RCR", "SHR"} ->
            SignBit(r.v, wide) # SignBit((r.v * 2) % Modulus(wide), wide)
      [] OTHER -> FALSE

\* C and O from r; S, Z, P as well for SHL, SHR, SAR
ShiftFlags(c, mn, r, wide) ==
    IF mn \in {"SHL", "SHR", "SAR"}
    THEN set_szp_flags_from_result(
             set_flag_state(set_flag_state(c, "CF", r.cf = 1), "OF", ShiftOverflow(mn, r, wide)),
             r.v, wide)
    ELSE set_flag_state(set_flag_state(c, "CF", r.cf = 1), "OF", ShiftOverflow(mn, r, wide))

\* the flag effects of bitshift_op8/bitshift_op16: none for a count of 0
bitshift_op(c, mn, v, count, wide) ==
    IF count = 0 THEN c
    ELSE ShiftFlags(c, mn, ShiftBits(mn, [v |-> v, cf |-> CarryIn(c)], count, wide), wide)

\* signed reading of a w-bit pattern, and back
Signed(x, m) == IF x >= m \div 2 THEN x - m ELSE x
Unsigned(x, m) == ((x % m) + m) % m

\* double-width values are pairs [hi, lo] of m-sized halves (m = 2^8 or 2^16)
Neg2(p, m) ==
    [hi |-> (m - 1 - p.hi + (IF p.lo = 0 THEN 1 ELSE 0)) % m, lo |-> (m - p.lo) % m]

Abs(x) == IF x < 0 THEN -x ELSE x

\* unsigned a * b as a pair, by bytes of a
UMul(a, b, m) ==
    LET t1 == (a % 256) * b
        t2 == (a \div 256) * b
        x  == (t2 % 256) * 256 + t1
    IN  [hi |-> (t2 \div 256) + (x \div m), lo |-> x % m]

\* mul8/mul16(a, b, signed, negate): the double-width product; a REP prefix
\* (negate) two's-complements it
MulProduct(a, b, signed, negate, wide) ==
    LET m  == Modulus(wide)
        sa == IF signed THEN Signed(a, m) ELSE a
        sb == IF signed THEN Signed(b, m) ELSE b
        mag == UMul(Abs(sa), Abs(sb), m)
        p  == IF (sa < 0) # (sb < 0) THEN Neg2(mag, m) ELSE mag
    IN  IF negate THEN Neg2(p, m) ELSE p

\* CF = OF = the high half of product p carries information
MulBig(p, signed, wide) ==
    IF signed THEN p.hi # (IF SignBit(p.lo, wide) THEN Modulus(wide) - 1 ELSE 0)
    ELSE p.hi # 0

mul_flags(c, a, b, signed, negate, wide) ==
    set_flag_state(set_flag_state(c, "CF", MulBig(MulProduct(a, b, signed, negate, wide), signed, wide)),
                   "OF", MulBig(MulProduct(a, b, signed, negate, wide), signed, wide))

\* one step of long division in base 256
DivStep(rem, byte, d) == [q |-> (rem * 256 + byte) \div d, r |-> (rem * 256 + byte) % d]

\* unsigned (p.hi : p.lo) / d for 0 < d and p.hi < d
UDiv(p, d, m) ==
    IF m = W8 THEN DivStep(p.hi, p.lo, d)
    ELSE LET s1 == DivStep(p.hi, p.lo \div 256, d)
             s2 == DivStep(s1.r, p.lo % 256, d)
         IN  [q |-> s1.q * 256 + s2.q, r |-> s2.r]

\* div8/div16(dividend, divisor, signed, negate): Err (ok = FALSE) on a zero
\* divisor or a quotient that does not fit; otherwise quotient and remainder
DivOutcome(dividend, divisor, signed, negate, wide) ==
    LET m    == Modulus(wide)
        err  == [ok |-> FALSE, q |-> 0, r |-> 0]
        dneg == signed /\ dividend.hi >= m \div 2
        vneg == signed /\ divisor >= m \div 2
        pmag == IF dneg THEN Neg2(dividend, m) ELSE dividend
        vmag == IF vneg THEN m - divisor ELSE divisor
    IN  IF divisor = 0 \/ pmag.hi >= vmag THEN err
        ELSE LET u  == UDiv(pmag, vmag, m)
                 q0 == IF dneg # vneg THEN -u.q ELSE u.q
                 r0 == IF dneg THEN -u.r ELSE u.r
                 q  == IF negate THEN -q0 ELSE q0
                 fits == IF signed THEN q >= -(m \div 2) /\ q < m \div 2 ELSE TRUE
             IN  IF fits THEN [ok |-> TRUE, q |-> Unsigned(q, m), r |-> Unsigned(r0, m)]
                 ELSE err

----------------------------------------------------------------------------
(* Operands and addressing *)

NoOperand == [t |-> "NoOperand", r |-> "", v |-> 0, s |-> 0]
Register8(r) == [t |-> "Register8", r |-> r, v |-> 0, s |-> 0]
Register16(r) == [t |-> "Register16", r |-> r, v |-> 0, s |-> 0]
Immediate8(v) == [t |-> "Immediate8", r |-> "", v |-> v, s |-> 0]
Immediate16(v) == [t |-> "Immediate16", r |-> "", v |-> v, s |-> 0]
Relative8(v) == [t |-> "Relative8", r |-> "", v |-> v, s |-> 0]
Relative16(v) == [t |-> "Relative16", r |-> "", v |-> v, s |-> 0]
FarAddress(seg, off) == [t |-> "FarAddress", r |-> "", v |-> off, s |-> seg]
\* AddressingMode(mode) with its displacement
AddressingMode(mode, disp) == [t |-> "AddressingMode", r |-> mode, v |-> disp, s |-> 0]

IsMem(op) == op.t = "AddressingMode"

\* Cpu::segment_override(override, default)
segment_override(ovr, default) == IF ovr = "None" THEN default ELSE ovr

SegmentValue(c, seg) == get_register16(c, seg)

\* the offset of an addressing mode: base/index registers plus displacement
EaOffset(c, op) ==
    LET base == CASE op.r = "BxSi" -> c.bx + c.si [] op.r = "BxDi" -> c.bx + c.di
                  [] op.r = "BpSi" -> c.bp + c.si [] op.r = "BpDi" -> c.bp + c.di
                  [] op.r = "Si" -> c.si [] op.r = "Di" -> c.di
                  [] op.r = "Bp" -> c.bp [] op.r = "Bx" -> c.bx
                  [] op.r = "Disp16" -> 0
    IN  (base + op.v) % W16

\* default segment: SS for the forms with BP, DS for the others
EaSegment(op, ovr) ==
    segment_override(ovr, IF op.r \in {"BpSi", "BpDi", "Bp"} THEN "SS" ELSE "DS")

\* calc_effective_address caches the offset in last_ea
load_ea(c, op) == IF IsMem(op) THEN [c EXCEPT !.last_ea = EaOffset(c, op)] ELSE c

OperandValue8(c, op, ovr) ==
    CASE op.t = "Register8" -> get_register8(c, op.r)
      [] op.t \in {"Immediate8", "Relative8"} -> op.v
      [] op.t = "AddressingMode" ->
            MemRead(c, calc_linear_address(SegmentValue(c, EaSegment(op, ovr)), EaOffset(c, op)))
      [] OTHER -> 0

OperandValue16(c, op, ovr) ==
    CASE op.t = "Register16" -> get_register16(c, op.r)
      [] op.t \in {"Immediate16", "Relative16"} -> op.v
      [] op.t = "Immediate8" -> op.v
      [] op.t = "AddressingMode" ->
            ReadU16(c, SegmentValue(c, EaSegment(op, ovr)), EaOffset(c, op))
      [] OTHER -> 0

\* the bus effect of read_operand8 / read_operand16
read_operand8(c, op, ovr) ==
    IF IsMem(op)
    THEN biu_read_u8(load_ea(c, op),
            calc_linear_address(SegmentValue(c, EaSegment(op, ovr)), EaOffset(c, op)))
    ELSE c

read_operand16(c, op, ovr) ==
    IF IsMem(op)
    THEN biu_read_u16(load_ea(c, op), SegmentValue(c, EaSegment(op, ovr)), EaOffset(c, op))
    ELSE c

write_operand8(c, op, ovr, v) ==
    CASE op.t = "Register8" -> set_register8(c, op.r, v)
      [] op.t = "AddressingMode" ->
            biu_write_u8(load_ea(c, op),
                calc_linear_address(SegmentValue(c, EaSegment(op, ovr)), EaOffset(c, op)), v)
      [] OTHER -> c

write_operand16(c, op, ovr, v) ==
    CASE op.t = "Register16" -> set_register16(c, op.r, v)
      [] op.t = "AddressingMode" ->
            biu_write_u16(load_ea(c, op), SegmentValue(c, EaSegment(op, ovr)), EaOffset(c, op), v)
      [] OTHER -> c

\* read_operand_farptr: offset word at the EA, segment word at EA + 2
FarPtrOffset(c, op, ovr) == ReadU16(c, SegmentValue(c, EaSegment(op, ovr)), EaOffset(c, op))
FarPtrSegment(c, op, ovr) ==
    ReadU16(c, SegmentValue(c, EaSegment(op, ovr)), wrapping_add(EaOffset(c, op), 2))
read_operand_farptr(c, op, ovr) ==
    biu_read_u16(
        biu_read_u16(load_ea(c, op), SegmentValue(c, EaSegment(op, ovr)), EaOffset(c, op)),
        SegmentValue(c, EaSegment(op, ovr)), wrapping_add(EaOffset(c, op), 2))

----------------------------------------------------------------------------
(* Jumps, far returns, software interrupts *)

\* reljmp(new_ip, flush_queue): the RELJMP routine
reljmp(c, new_ip, flush_queue) ==
    IF flush_queue
    THEN cycle(biu_queue_flush([cycles(biu_suspend_fetch(c), 3) EXCEPT !.ip = new_ip]))
    ELSE cycle([cycles(biu_suspend_fetch(c), 3) EXCEPT !.ip = new_ip])

\* pop IP / pop CS
PopIp(c) == [pop_u16(c) EXCEPT !.ip = PopValue(c)]
PopCs(c) == [pop_u16(c) EXCEPT !.cs = PopValue(c)]

\* farret(far): pop IP (and CS for a far return), then flush the queue
farret(c, far) ==
    IF far
    THEN cycles(biu_queue_flush(PopCs(cycles(biu_suspend_fetch(PopIp(c)), 2))), 2)
    ELSE cycles(biu_queue_flush(cycles(biu_suspend_fetch(PopIp(c)), 2)), 2)

\* push CS, push IP
PushCsIp(c) == push_u16(push_u16(c, c.cs), c.ip)

\* CS:IP from the vector at linear 4n; the shadow call stack records the entry
LoadVector(c, n) ==
    [push_call_stack(c, "Interrupt", c.cs, c.ip, ReadU16(c, 0, 4 * n + 2), ReadU16(c, 0, 4 * n))
        EXCEPT !.ip = ReadU16(c, 0, 4 * n), !.cs = ReadU16(c, 0, 4 * n + 2)]

\* sw_interrupt(n): push flags, clear TF and IF, push CS, push IP, load CS:IP
\* from the vector at linear 4n, flush the queue
sw_interrupt(c, n) ==
    cycles(biu_queue_flush(Emit(
        LoadVector(PushCsIp(clear_flag(clear_flag(push_flags(biu_suspend_fetch(c)), "TF"), "IF")), n),
        "int", n, 0)), 2)

int3(c) == sw_interrupt(c, 3)

\* iret_routine: far return, then pop the flags
iret_routine(c) == pop_flags(farret(c, TRUE))

----------------------------------------------------------------------------
(* REP machinery and string bodies *)

rep_end(c) == [Emit(c, "rep_end", c.cx, 0) EXCEPT !.in_rep = FALSE, !.rep_type = "NoRep"]

\* rep_start() returns false when a REP-prefixed instruction finds CX = 0
RepStartGo(c) == ~(c.in_rep /\ c.cx = 0)

\* rep_start(): RPTS; with CX = 0 the repeat ends before any body is run
rep_start(c) ==
    IF ~c.in_rep THEN c
    ELSE LET c1 == IF c.rep_init THEN c ELSE cycles(c, 2)
             c2 == cycles(Emit(c1, "rep_start", c.cx, 0), 2)
         IN  IF c.cx = 0 THEN rep_end(c2) ELSE cycles(c2, 3)

\* rep_interrupt(): RPTI.  The dispatcher's IP still addresses the REP
\* prefix (IP is not advanced while in_rep); the flush restarts code fetch
\* there, which is the rewind to the prefix.
rep_interrupt(c) ==
    cycles(biu_queue_flush(cycles(biu_suspend_fetch(Emit(c, "rep_interrupt", c.cx, 0)), 4)), 2)

StringStep(c, wide) ==
    IF get_flag(c, "DF") THEN W16 - (IF wide THEN 2 ELSE 1) ELSE (IF wide THEN 2 ELSE 1)

StrRead(c, seg, off, wide) ==
    IF wide THEN ReadU16(c, SegmentValue(c, seg), off)
    ELSE MemRead(c, calc_linear_address(SegmentValue(c, seg), off))

StrBusRead(c, seg, off, wide) ==
    IF wide THEN biu_read_u16(c, SegmentValue(c, seg), off)
    ELSE biu_read_u8(c, calc_linear_address(SegmentValue(c, seg), off))

StrBusWrite(c, seg, off, v, wide) ==
    IF wide THEN biu_write_u16(c, SegmentValue(c, seg), off, v)
    ELSE biu_write_u8(c, calc_linear_address(SegmentValue(c, seg), off), v)

IsWideString(mn) == mn \in {"MOVSW", "CMPSW", "SCASW", "STOSW", "LODSW"}

\* SI / DI step by the operand size, down when DF is set
AdvSi(c, wide) == [c EXCEPT !.si = wrapping_add(@, StringStep(c, wide))]
AdvDi(c, wide) == [c EXCEPT !.di = wrapping_add(@, StringStep(c, wide))]

\* AL or AX
Accumulator(c, wide) == IF wide THEN c.ax ELSE LowByte(c.ax)

\* one body of a string instruction on c, source segment src
StringBody(c, mn, src, wide) ==
    CASE mn \in {"MOVSB", "MOVSW"} ->
           AdvDi(AdvSi(StrBusWrite(StrBusRead(c, src, c.si, wide), "ES", c.di,
                                   StrRead(c, src, c.si, wide), wide), wide), wide)
      [] mn \in {"STOSB", "STOSW"} ->
           AdvDi(StrBusWrite(c, "ES", c.di, Accumulator(c, wide), wide), wide)
      [] mn \in {"LODSB", "LODSW"} ->
           AdvSi(IF wide
                 THEN set_register16(StrBusRead(c, src, c.si, wide), "AX",
                                     StrRead(c, src, c.si, wide))
                 ELSE set_register8(StrBusRead(c, src, c.si, wide), "AL",
                                    StrRead(c, src, c.si, wide)), wide)
      [] mn \in {"SCASB", "SCASW"} ->
           AdvDi(math_op(StrBusRead(c, "ES", c.di, wide), "CMP", Accumulator(c, wide),
                         StrRead(c, "ES", c.di, wide), wide), wide)
      [] mn \in {"CMPSB", "CMPSW"} ->
           AdvDi(AdvSi(math_op(StrBusRead(StrBusRead(c, src, c.si, wide), "ES", c.di, wide),
                               "CMP", StrRead(c, src, c.si, wide),
                               StrRead(c, "ES", c.di, wide), wide), wide), wide)

\* a string_op that ignores the override
string_opNoOverride(c, mn, ovr) ==
    StringBody(Emit(c, "body", c.cx, 0), mn, "DS", IsWideString(mn))

\* string_op(mnemonic, segment_override): one body.  The override replaces DS
\* for the DS:SI operand only; the ES:DI operand is never overridable.
string_op(c, mn, ovr) ==
    StringBody(Emit(c, "body", c.cx, 0), mn, segment_override(ovr, "DS"), IsWideString(mn))

----------------------------------------------------------------------------
(* execute_instruction: the steps before the opcode arm *)

OPCODE_PREFIX_REP1 == "REP1"
OPCODE_PREFIX_REP2 == "REP2"

HasRepPrefix(ins) == OPCODE_PREFIX_REP1 \in ins.prefixes \/ OPCODE_PREFIX_REP2 \in ins.prefixes

\* a Rust panic: the call does not return
Panic(c) == [c EXCEPT !.panicked = TRUE]

\* `a + b` on u16: panics on overflow in a build with overflow checks
AddPanics(a, b) == overflow_checks /\ a + b >= W16
\* `a + b` on i16
AddI16Panics(a, b) == overflow_checks /\ (a + b > 32767 \/ a + b < -32768)

saturating_sub(a, b) == IF a >= b THEN a - b ELSE 0

\* the locals of execute_instruction, and the per-call trace
EnterCall(c, pend) ==
    [c EXCEPT !.jump = FALSE, !.exception = "NoException", !.unhandled = FALSE,
              !.panicked = FALSE, !.trace = <<>>, !.cycles = 0,
              !.pending_interrupt = pend]


\* a prologue that spends the First wait cycle even after a deferred RNI
PrologueBoth(c, ins) ==
    LET c1 == [c EXCEPT !.step_over_target = <<>>,
                        !.trap_suppressed = FALSE,
                        !.trap_enable_delay = saturating_sub(@, 1),
                        !.trap_disable_delay = saturating_sub(@, 1)]
        c2 == IF c1.nx THEN [cycle(Emit(c1, "rni", 0, 0)) EXCEPT !.nx = FALSE] ELSE c1
        c3 == IF c1.last_queue_op = "First" THEN cycle(Emit(c2, "first_wait", 0, 0)) ELSE c2
    IN  IF ins.group_delay THEN cycle(Emit(c3, "group_delay", 0, 0)) ELSE c3

Prologue(c, ins) ==
    LET c1 == [c EXCEPT !.step_over_target = <<>>,
                        !.trap_suppressed = FALSE,
                        !.trap_enable_delay = saturating_sub(@, 1),
                        !.trap_disable_delay = saturating_sub(@, 1)]
        c2 == IF c1.nx THEN [cycle(Emit(c1, "rni", 0, 0)) EXCEPT !.nx = FALSE]
              ELSE IF c1.last_queue_op = "First" THEN cycle(Emit(c1, "first_wait", 0, 0))
              ELSE c1
    IN  IF ins.group_delay THEN cycle(Emit(c2, "group_delay", 0, 0)) ELSE c2


\* a prologue that never looks at the return marker
ReturnDetectOff(c) == c

ReturnDetect(c) ==
    LET flat_addr == calc_linear_address(c.cs, c.ip)
    IN  IF flat_addr \in c.ret_bits THEN rewind_call_stack(c, flat_addr) ELSE c

StringMnemonicsRep == {"STOSB", "STOSW", "LODSB", "LODSW", "MOVSB", "MOVSW"}
StringMnemonicsRepz == {"SCASB", "SCASW", "CMPSB", "CMPSW"}
MulDivMnemonics == {"MUL", "IMUL", "DIV", "IDIV"}

\* a classification that enters the REP state for every prefixed instruction
RepClassifyAll(c, ins) ==
    IF ~HasRepPrefix(ins) THEN c
    ELSE [c EXCEPT !.rep_type = "Rep", !.in_rep = TRUE, !.rep_mnemonic = ins.mnemonic]

\* "Check for REPx prefixes"
RepClassify(c, ins) ==
    IF ~HasRepPrefix(ins) THEN c
    ELSE LET invalid_rep == ins.mnemonic \notin
                               (StringMnemonicsRep \cup StringMnemonicsRepz \cup MulDivMnemonics)
             c1 == CASE ins.mnemonic \in StringMnemonicsRep -> [c EXCEPT !.rep_type = "Rep"]
                     [] ins.mnemonic \in StringMnemonicsRepz ->
                           IF OPCODE_PREFIX_REP1 \in ins.prefixes
                           THEN [c EXCEPT !.rep_type = "Repne"]
                           ELSE [c EXCEPT !.rep_type = "Repe"]
                     [] ins.mnemonic \in MulDivMnemonics -> [c EXCEPT !.rep_type = "Rep"]
                     [] OTHER -> c
         IN  IF ~invalid_rep
             THEN [c1 EXCEPT !.in_rep = TRUE, !.rep_mnemonic = ins.mnemonic]
             ELSE c1

OffRailsThreshold == 5


\* an off-rails check that already fires when the count reaches the threshold
OffRailsAtThreshold(c, ins) ==
    IF ins.opcode = 0
    THEN IF c.off_rails_detection /\ c.opcode0_counter + 1 >= OffRailsThreshold
         THEN [clear_flag(c, "IF") EXCEPT !.opcode0_counter = @ + 1, !.halted = TRUE]
         ELSE [c EXCEPT !.opcode0_counter = @ + 1]
    ELSE [c EXCEPT !.opcode0_counter = 0]

OffRails(c, ins) ==
    IF ins.opcode = 0
    THEN LET c1 == [c EXCEPT !.opcode0_counter = @ + 1]
         IN  IF c1.off_rails_detection /\ c1.opcode0_counter > OffRailsThreshold
             THEN [clear_flag(c1, "IF") EXCEPT !.halted = TRUE]
             ELSE c1
    ELSE [c EXCEPT !.opcode0_counter = 0]

BeforeDispatch(c, ins) ==
    OffRails([RepClassify(ReturnDetect(Prologue(c, ins)), ins)
                 EXCEPT !.interrupt_inhibit = FALSE], ins)

----------------------------------------------------------------------------
(* Opcode arms: data instructions *)

\* read_operand8/16 and write_operand8/16 by operand width
OperandValue(c, op, ovr, wide) ==
    IF wide THEN OperandValue16(c, op, ovr) ELSE OperandValue8(c, op, ovr)
read_operand(c, op, ovr, wide) ==
    IF wide THEN read_operand16(c, op, ovr) ELSE read_operand8(c, op, ovr)
write_operand(c, op, ovr, v, wide) ==
    IF wide THEN write_operand16(c, op, ovr, v) ELSE write_operand8(c, op, ovr, v)

\* both operands are read, in order
ReadBoth(c, ins, wide) ==
    read_operand(read_operand(c, ins.operand1_type, ins.segment_override, wide),
                 ins.operand2_type, ins.segment_override, wide)

\* two more cycles when the destination is memory
MemCycles(c, ins) == IF IsMem(ins.operand1_type) THEN cycles(c, 2) ELSE c

\* math_op on operand values a, b and write-back to operand 1
AluWrite(c, ins, mn, a, b, wide) ==
    write_operand(math_op(c, mn, a, b, wide), ins.operand1_type, ins.segment_override,
                  MathResult(c, mn, a, b, wide), wide)

\* 0x00-0x35: ADD/OR/ADC/SBB/AND/SUB/XOR r/m, r | r, r/m | acc, imm
Arm_Alu(c, ins, wide) ==
    AluWrite(MemCycles(cycles_nx(ReadBoth(c, ins, wide), 2), ins), ins, ins.mnemonic,
             OperandValue(c, ins.operand1_type, ins.segment_override, wide),
             OperandValue(c, ins.operand2_type, ins.segment_override, wide), wide)

\* 0x38-0x3D: CMP, flags only
Arm_Cmp(c, ins, wide) ==
    math_op(cycles_nx(ReadBoth(c, ins, wide), IF ins.opcode = 61 THEN 1 ELSE 2), "CMP",
            OperandValue(c, ins.operand1_type, ins.segment_override, wide),
            OperandValue(c, ins.operand2_type, ins.segment_override, wide), wide)


\* "op2_value as i8 as i16 as u16"
SignExtend8(v) == IF v >= 128 THEN v + 65280 ELSE v

\* operand 2 of Group 1: imm8 sign-extended under 0x83
Group1Op2(c, ins) ==
    IF ins.opcode = 131
    THEN SignExtend8(OperandValue8(c, ins.operand2_type, ins.segment_override))
    ELSE OperandValue(c, ins.operand2_type, ins.segment_override, ins.opcode = 129)

\* Group 1 cycles after the operands are read: cycle_nx() under 0x80-0x82, two
\* more for a memory operand (deferred ones for CMP under 0x81)
Group1Cycles(c, ins) ==
    IF ins.opcode = 131 THEN MemCycles(c, ins)
    ELSE IF ins.opcode = 129 /\ ins.mnemonic = "CMP" /\ IsMem(ins.operand1_type)
    THEN cycles_nx(cycles_nx(c, 1), 2)
    ELSE MemCycles(cycles_nx(c, 1), ins)

\* a Group 1 that writes the result back for CMP as well
Arm_Group1WriteAll(c, ins) ==
    AluWrite(Group1Cycles(ReadBoth(c, ins, ins.opcode \in {129, 131}), ins), ins, ins.mnemonic,
             OperandValue(c, ins.operand1_type, ins.segment_override,
                          ins.opcode \in {129, 131}),
             Group1Op2(c, ins), ins.opcode \in {129, 131})

\* 0x80-0x83: ADD/OR/ADC/SBB/AND/SUB/XOR/CMP r/m, imm; "if self.i.mnemonic !=
\* Mnemonic::CMP { write_operand }"
Arm_Group1(c, ins) ==
    IF ins.mnemonic = "CMP"
    THEN math_op(Group1Cycles(ReadBoth(c, ins, ins.opcode \in {129, 131}), ins), "CMP",
                 OperandValue(c, ins.operand1_type, ins.segment_override,
                              ins.opcode \in {129, 131}),
                 Group1Op2(c, ins), ins.opcode \in {129, 131})
    ELSE AluWrite(Group1Cycles(ReadBoth(c, ins, ins.opcode \in {129, 131}), ins), ins,
                  ins.mnemonic,
                  OperandValue(c, ins.operand1_type, ins.segment_override,
                               ins.opcode \in {129, 131}),
                  Group1Op2(c, ins), ins.opcode \in {129, 131})

\* 0x84, 0x85: TEST r/m, r, flags only
Arm_Test(c, ins, wide) ==
    cycles_nx(math_op(ReadBoth(c, ins, wide), "TEST",
                      OperandValue(c, ins.operand1_type, ins.segment_override, wide),
                      OperandValue(c, ins.operand2_type, ins.segment_override, wide), wide), 2)

\* 0xA8, 0xA9: TEST al/ax, imm, flags only
Arm_TestAcc(c, ins, wide) ==
    math_op(c, "TEST", IF wide THEN c.ax ELSE LowByte(c.ax),
            OperandValue(c, ins.operand2_type, "None", wide), wide)

\* two more cycles when operand 2 is memory
MemCycles2(c, ins) == IF IsMem(ins.operand2_type) THEN cycles(c, 2) ELSE c

\* an XCHG that writes operand 1 first
Arm_XchgOp1First(c, ins, wide) ==
    write_operand(
        write_operand(MemCycles2(cycles_nx(ReadBoth(c, ins, wide), 3), ins),
                      ins.operand1_type, ins.segment_override,
                      OperandValue(c, ins.operand2_type, ins.segment_override, wide), wide),
        ins.operand2_type, ins.segment_override,
        OperandValue(c, ins.operand1_type, ins.segment_override, wide), wide)

\* 0x86, 0x87: XCHG r, r/m: "Write operand2 first so we don't affect EA
\* calculation if EA includes register being swapped"
Arm_Xchg(c, ins, wide) ==
    write_operand(
        write_operand(MemCycles2(cycles_nx(ReadBoth(c, ins, wide), 3), ins),
                      ins.operand2_type, ins.segment_override,
                      OperandValue(c, ins.operand1_type, ins.segment_override, wide), wide),
        ins.operand1_type, ins.segment_override,
        OperandValue(c, ins.operand2_type, ins.segment_override, wide), wide)

\* an LEA that always writes the address of its own operand 2 (0 for a
\* register)
Arm_LeaOwn(c, ins) ==
    write_operand16(load_ea(c, ins.operand2_type), ins.operand1_type, "None",
                    IF IsMem(ins.operand2_type) THEN EaOffset(c, ins.operand2_type) ELSE 0)

\* 0x8D: LEA: the offset of operand 2, or last_ea when operand 2 is a register
Arm_Lea(c, ins) ==
    IF IsMem(ins.operand2_type)
    THEN write_operand16(load_ea(c, ins.operand2_type), ins.operand1_type, "None",
                         EaOffset(c, ins.operand2_type))
    ELSE write_operand16(c, ins.operand1_type, "None", c.last_ea)

\* 0x06, 0x0E, 0x16, 0x1E: PUSH sreg
Arm_PushSeg(c, r) == push_register16(cycles(c, 3), r)

\* 0x07, 0x0F, 0x17, 0x1F: POP sreg (0x0F is POP CS on the 8088)
Arm_PopSeg(c, r) == pop_register16(c, r)

\* 0x40-0x4F: INC/DEC r16
Arm_IncDec16(c, ins) ==
    cycles_nx(AluWrite(c, ins, IF ins.opcode < 72 THEN "INC" ELSE "DEC",
                       OperandValue16(c, ins.operand1_type, ins.segment_override), 0, TRUE), 1)

\* a POP r16 that loads the register after the one the opcode names
Arm_PopRegNext(c, ins) ==
    cycles_nx(pop_register16(c, REGISTER16_LUT[((ins.opcode + 1) % 8) + 1]), 1)

\* 0x50-0x57: PUSH r16;  0x58-0x5F: POP r16
Arm_PushReg(c, ins) == push_register16(cycles(c, 3), REGISTER16_LUT[(ins.opcode % 8) + 1])
Arm_PopReg(c, ins) == cycles_nx(pop_register16(c, REGISTER16_LUT[(ins.opcode % 8) + 1]), 1)

\* 0x88-0x8B: MOV r/m, r | r, r/m
Arm_Mov(c, ins, wide) ==
    write_operand(
        MemCycles(read_operand(cycles_nx(c, 1), ins.operand2_type, ins.segment_override, wide),
                  ins),
        ins.operand1_type, ins.segment_override,
        OperandValue(c, ins.operand2_type, ins.segment_override, wide), wide)

\* 0x8C, 0x8E: MOV r/m16, sreg | MOV sreg, r/m16
Arm_MovSreg(c, ins) ==
    write_operand16(
        read_operand16(IF IsMem(ins.operand1_type) THEN cycle(c) ELSE c,
                       ins.operand2_type, ins.segment_override),
        ins.operand1_type, ins.segment_override,
        OperandValue16(c, ins.operand2_type, ins.segment_override))

\* 0x90-0x97: XCHG AX, r16 (0x90 is NOP)
Arm_XchgAx(c, ins) ==
    set_register16(set_register16(cycles_nx(c, 2), "AX",
                                  get_register16(c, REGISTER16_LUT[(ins.opcode % 8) + 1])),
                   REGISTER16_LUT[(ins.opcode % 8) + 1], c.ax)

\* 0xB0-0xBF: MOV r, imm
Arm_MovImm(c, ins) ==
    IF ins.opcode < 184
    THEN cycle(IF ins.operand1_type.t = "Register8"
               THEN set_register8(c, ins.operand1_type.r, ins.operand2_type.v) ELSE c)
    ELSE IF ins.operand1_type.t = "Register16"
         THEN set_register16(c, ins.operand1_type.r, ins.operand2_type.v) ELSE c

\* aam(base): false on base 0; else AH = AL / base, AL = AL % base
AamOk(base) == base # 0
Aam(c, base) ==
    IF base = 0 THEN c
    ELSE set_szp_flags_from_result(
             set_register8(set_register8(c, "AH", LowByte(c.ax) \div base),
                           "AL", LowByte(c.ax) % base),
             LowByte(c.ax) % base, FALSE)

\* 0xD4: AAM
Arm_Aam(c, ins) ==
    IF ~AamOk(ins.operand1_type.v)
    THEN [Aam(c, ins.operand1_type.v) EXCEPT !.exception = "DivideError"]
    ELSE Aam(c, ins.operand1_type.v)

\* 0xE4, 0xE5: IN AL/AX, imm8.  Both read one byte; 0xE5 stores it in AX
Arm_InImm(c, ins) ==
    IF ins.opcode = 228
    THEN set_register8(biu_io_read_u8(cycles(c, 2), ins.operand2_type.v), "AL",
                       IoRead(c, ins.operand2_type.v))
    ELSE set_register16(biu_io_read_u8(cycles(c, 2), ins.operand2_type.v), "AX",
                        IoRead(c, ins.operand2_type.v))

\* 0xE6, 0xE7: OUT imm8, AL/AX
Arm_OutImm(c, ins) ==
    IF ins.opcode = 230
    THEN biu_io_write_u8(cycles(c, 2), ins.operand1_type.v, LowByte(c.ax))
    ELSE biu_io_write_u16(cycles(c, 2), ins.operand1_type.v, c.ax)

\* 0xEC, 0xED: IN AL/AX, DX.  Both read one byte; 0xED stores it in AX
Arm_InDx(c, ins) ==
    IF ins.opcode = 236
    THEN set_register8(biu_io_read_u8(c, c.dx), "AL", IoRead(c, c.dx))
    ELSE set_register16(biu_io_read_u8(c, c.dx), "AX", IoRead(c, c.dx))

\* 0xEE, 0xEF: OUT DX, AL/AX
Arm_OutDx(c, ins) ==
    IF ins.opcode = 238
    THEN biu_io_write_u8(cycle(c), c.dx, LowByte(c.ax))
    ELSE biu_io_write_u16(cycle(c), c.dx, c.ax)

\* one more cycle when the operand is memory
MemCycle(c, ins) == IF IsMem(ins.operand1_type) THEN cycle(c) ELSE c

\* 0xD0, 0xD1: shift/rotate r/m by 1
Arm_Shift1(c, ins, wide) ==
    write_operand(
        MemCycle(bitshift_op(read_operand(c, ins.operand1_type, ins.segment_override, wide),
                             ins.mnemonic,
                             OperandValue(c, ins.operand1_type, ins.segment_override, wide),
                             1, wide), ins),
        ins.operand1_type, ins.segment_override,
        BitshiftResult(c, ins.mnemonic,
                       OperandValue(c, ins.operand1_type, ins.segment_override, wide), 1, wide),
        wide)

\* "for _ in 0..(self.cl) { cycles_i(4) }": n iterations of four cycles
ShiftLoop(c, n) == cycles(Emit(c, "shift_loop", n, 0), 4 * n)

\* a shift by CL whose loop count is masked to five bits
Arm_ShiftClMasked(c, ins, wide) ==
    write_operand(
        bitshift_op(
            MemCycle(ShiftLoop(cycles(read_operand(c, ins.operand1_type, ins.segment_override,
                                                   wide), 6),
                               LowByte(c.cx) % 32), ins),
            ins.mnemonic, OperandValue(c, ins.operand1_type, ins.segment_override, wide),
            OperandValue8(c, ins.operand2_type, ins.segment_override), wide),
        ins.operand1_type, ins.segment_override,
        BitshiftResult(c, ins.mnemonic,
                       OperandValue(c, ins.operand1_type, ins.segment_override, wide),
                       OperandValue8(c, ins.operand2_type, ins.segment_override), wide),
        wide)

\* a shift by CL that does nothing at all when CL = 0
Arm_ShiftClSkipZero(c, ins, wide) ==
    IF LowByte(c.cx) = 0 THEN c
    ELSE write_operand(
        bitshift_op(
            MemCycle(ShiftLoop(cycles(read_operand(c, ins.operand1_type, ins.segment_override,
                                                   wide), 6),
                               LowByte(c.cx)), ins),
            ins.mnemonic, OperandValue(c, ins.operand1_type, ins.segment_override, wide),
            OperandValue8(c, ins.operand2_type, ins.segment_override), wide),
        ins.operand1_type, ins.segment_override,
        BitshiftResult(c, ins.mnemonic,
                       OperandValue(c, ins.operand1_type, ins.segment_override, wide),
                       OperandValue8(c, ins.operand2_type, ins.segment_override), wide),
        wide)

\* 0xD2, 0xD3: shift/rotate r/m by CL: six cycles, four more per count taken
\* from self.cl, one more for a memory operand, then the shift by operand 2
Arm_ShiftCl(c, ins, wide) ==
    write_operand(
        bitshift_op(
            MemCycle(ShiftLoop(cycles(read_operand(c, ins.operand1_type, ins.segment_override,
                                                   wide), 6),
                               LowByte(c.cx)), ins),
            ins.mnemonic, OperandValue(c, ins.operand1_type, ins.segment_override, wide),
            OperandValue8(c, ins.operand2_type, ins.segment_override), wide),
        ins.operand1_type, ins.segment_override,
        BitshiftResult(c, ins.mnemonic,
                       OperandValue(c, ins.operand1_type, ins.segment_override, wide),
                       OperandValue8(c, ins.operand2_type, ins.segment_override), wide),
        wide)

\* 0xF8-0xFD: CLC STC CLI STI CLD STD;  0xF5: CMC
Arm_FlagOp(c, ins) ==
    CASE ins.opcode = 245 -> set_flag_state(c, "CF", ~get_flag(c, "CF"))
      [] ins.opcode = 248 -> clear_flag(c, "CF")
      [] ins.opcode = 249 -> set_flag(c, "CF")
      [] ins.opcode = 250 -> clear_flag(c, "IF")
      [] ins.opcode = 251 -> set_flag(c, "IF")
      [] ins.opcode = 252 -> clear_flag(c, "DF")
      [] ins.opcode = 253 -> set_flag(c, "DF")

\* 0xF4: HLT
Arm_Hlt(c) == biu_halt(cycles(biu_suspend_fetch([c EXCEPT !.halted = TRUE]), 2))

----------------------------------------------------------------------------
(* Opcode arms: string instructions *)

DecCx(c) == Emit(decrement_register16(c, "CX"), "dec_cx", wrapping_sub(c.cx, 1), 0)

\* the test `if self.pending_interrupt`
IntrTest(c) == Emit(c, "intr_test", c.cx, 0)
\* the test `if self.cx == 0`
CxTest(c) == Emit(c, "cx_test", c.cx, 0)

\* a CX test that never ends the repeat
RepCxEndNever(c) == cycle(c)

\* "if self.cx == 0 { rep_end() } else { cycle }"
RepCxEnd(c) == IF c.cx = 0 THEN rep_end(c) ELSE cycle(c)

\* MOVS, LODS: "Check for interrupt", else "Check for end condition"
RepIntrElseCx(c) ==
    IF c.pending_interrupt THEN rep_interrupt(cycles(c, 2))
    ELSE RepCxEnd(CxTest(cycles(c, 2)))

\* a MOVS that loses the decrement of CX when it is interrupted
MovsRepLoseDec(c) ==
    IF c.in_rep
    THEN RepIntrElseCx(IntrTest(IF c.pending_interrupt THEN c ELSE DecCx(c)))
    ELSE cycle(c)

\* MOVS after the body
MovsRep(c) == IF c.in_rep THEN RepIntrElseCx(IntrTest(DecCx(c))) ELSE cycle(c)

\* MOVS that ignores what rep_start() returns
Arm_MovsAlways(c, ins) ==
    MovsRep(cycle(string_op(rep_start(c), ins.mnemonic, ins.segment_override)))

\* 0xA4, 0xA5: MOVSB, MOVSW
Arm_Movs(c, ins) ==
    IF ~RepStartGo(c) THEN rep_start(c)
    ELSE MovsRep(cycle(string_op(rep_start(c), ins.mnemonic, ins.segment_override)))

\* CMPS, SCAS: rep_interrupt() does not leave the arm; the CX test follows
CmpsIntrThenCx(c) ==
    RepCxEnd(CxTest(cycle(IF c.pending_interrupt THEN rep_interrupt(cycle(c)) ELSE c)))


\* an end condition with the senses of REPE and REPNE exchanged
CmpsZfEndSwapped(c) ==
    IF \/ c.rep_type = "Repe" /\ get_flag(c, "ZF")
       \/ c.rep_type = "Repne" /\ ~get_flag(c, "ZF")
    THEN cycle(rep_end(Emit(c, "zf_end", c.cx, 0)))
    ELSE CmpsIntrThenCx(IntrTest(cycle(c)))

\* CMPS, SCAS: "Check for REP end condition #1 (Z/NZ)"
CmpsZfEnd(c) ==
    IF \/ c.rep_type = "Repne" /\ get_flag(c, "ZF")
       \/ c.rep_type = "Repe" /\ ~get_flag(c, "ZF")
    THEN cycle(rep_end(Emit(c, "zf_end", c.cx, 0)))
    ELSE CmpsIntrThenCx(IntrTest(cycle(c)))

\* CMPS, SCAS after the body
CmpsRep(c) == IF c.in_rep THEN CmpsZfEnd(DecCx(cycle(c))) ELSE cycle(c)

\* 0xA6, 0xA7, 0xAE, 0xAF: CMPSB, CMPSW, SCASB, SCASW
Arm_CmpsScas(c, ins) ==
    IF ~RepStartGo(c) THEN rep_start(c)
    ELSE CmpsRep(string_op(rep_start(c), ins.mnemonic, ins.segment_override))

\* STOS: the interrupt test comes before the decrement, and rep_interrupt()
\* does not leave the arm
StosIntrThenCx(c) ==
    RepCxEnd(CxTest(DecCx(cycle(IF c.pending_interrupt THEN rep_interrupt(cycle(c)) ELSE c))))

\* STOS after the body
StosRep(c) == IF c.in_rep THEN StosIntrThenCx(IntrTest(cycle(c))) ELSE cycle(c)

\* 0xAA, 0xAB: STOSB, STOSW
Arm_Stos(c, ins) ==
    IF ~RepStartGo(c) THEN rep_start(c)
    ELSE StosRep(cycle(string_op(rep_start(c), ins.mnemonic, "None")))

\* LODS after the body
LodsRep(c) == IF c.in_rep THEN RepIntrElseCx(IntrTest(DecCx(cycle(c)))) ELSE c

\* 0xAC, 0xAD: LODSB, LODSW
Arm_Lods(c, ins) ==
    IF ~RepStartGo(c) THEN rep_start(c)
    ELSE LodsRep(cycles(string_op(rep_start(c), ins.mnemonic, ins.segment_override), 3))

----------------------------------------------------------------------------
(* Opcode arms: Group 3 (0xF6, 0xF7) *)

\* the dividend DIV/IDIV pass to div8 / div16: AX, or DX:AX
Dividend(c, wide) ==
    IF wide THEN [hi |-> c.dx, lo |-> c.ax] ELSE [hi |-> HighByte(c.ax), lo |-> LowByte(c.ax)]

\* the product goes to AX, or DX:AX; S, Z, P from its high half
StoreProduct(c, product, wide) ==
    IF wide
    THEN set_szp_flags_from_result(
             set_register16(set_register16(c, "DX", product.hi), "AX", product.lo),
             product.hi, TRUE)
    ELSE set_szp_flags_from_result(
             set_register16(c, "AX", product.hi * 256 + product.lo), product.hi, FALSE)

\* a store that writes the (zero) quotient and remainder of a failed division
StoreQuotientAlways(c, d, wide) ==
    IF d.ok
    THEN IF wide THEN set_register16(set_register16(c, "AX", d.q), "DX", d.r)
         ELSE set_register8(set_register8(c, "AL", d.q), "AH", d.r)
    ELSE IF wide
    THEN [set_register16(set_register16(c, "AX", d.q), "DX", d.r)
             EXCEPT !.exception = "DivideError"]
    ELSE [set_register8(set_register8(c, "AL", d.q), "AH", d.r)
             EXCEPT !.exception = "DivideError"]

\* Ok((quotient, remainder)) goes to AL/AH or AX/DX; Err raises DivideError
StoreQuotient(c, d, wide) ==
    IF d.ok
    THEN IF wide THEN set_register16(set_register16(c, "AX", d.q), "DX", d.r)
         ELSE set_register8(set_register8(c, "AL", d.q), "AH", d.r)
    ELSE [c EXCEPT !.exception = "DivideError"]

\* MUL, IMUL on operand value v; negate is the REP prefix
Group3Mul(c, ins, v, negate, wide) ==
    StoreProduct(
        mul_flags(read_operand(c, ins.operand1_type, ins.segment_override, wide),
                  Accumulator(c, wide), v, ins.mnemonic = "IMUL", negate, wide),
        MulProduct(Accumulator(c, wide), v, ins.mnemonic = "IMUL", negate, wide), wide)

\* DIV, IDIV on operand value v
Group3Div(c, ins, v, negate, wide) ==
    StoreQuotient(read_operand(c, ins.operand1_type, ins.segment_override, wide),
                  DivOutcome(Dividend(c, wide), v, ins.mnemonic = "IDIV", negate, wide), wide)

Arm_Group3(c, ins, wide) ==
    CASE ins.mnemonic = "TEST" ->
           math_op(cycles(ReadBoth(c, ins, wide), IF wide THEN 1 ELSE 2), "TEST",
                   OperandValue(c, ins.operand1_type, ins.segment_override, wide),
                   OperandValue(c, ins.operand2_type, ins.segment_override, wide), wide)
      [] ins.mnemonic \in {"NOT", "NEG"} ->
           write_operand(
               MemCycles(math_op(read_operand(c, ins.operand1_type, ins.segment_override, wide),
                                 ins.mnemonic,
                                 OperandValue(c, ins.operand1_type, ins.segment_override, wide),
                                 0, wide), ins),
               ins.operand1_type, ins.segment_override,
               MathResult(c, ins.mnemonic,
                          OperandValue(c, ins.operand1_type, ins.segment_override, wide), 0, wide),
               wide)
      [] ins.mnemonic \in {"MUL", "IMUL"} ->
           Group3Mul(c, ins, OperandValue(c, ins.operand1_type, ins.segment_override, wide),
                     HasRepPrefix(ins), wide)
      [] ins.mnemonic \in {"DIV", "IDIV"} ->
           Group3Div(c, ins, OperandValue(c, ins.operand1_type, ins.segment_override, wide),
                     HasRepPrefix(ins), wide)
      [] OTHER -> [c EXCEPT !.unhandled = TRUE]

----------------------------------------------------------------------------
(* Opcode arms: jumps, calls, returns, interrupts *)

\* the condition of Jcc, selected by opcode & 0x0F
JccCondition(c, n) ==
    LET OF == get_flag(c, "OF")
        CF == get_flag(c, "CF")
        ZF == get_flag(c, "ZF")
        SF == get_flag(c, "SF")
        PF == get_flag(c, "PF")
    IN  CASE n = 0 -> OF [] n = 1 -> ~OF [] n = 2 -> CF [] n = 3 -> ~CF
          [] n = 4 -> ZF [] n = 5 -> ~ZF [] n = 6 -> CF \/ ZF [] n = 7 -> ~CF /\ ~ZF
          [] n = 8 -> SF [] n = 9 -> ~SF [] n = 10 -> PF [] n = 11 -> ~PF
          [] n = 12 -> SF # OF [] n = 13 -> SF = OF
          [] n = 14 -> ZF \/ (SF # OF) [] n = 15 -> ~ZF /\ (SF = OF)

\* the target of a short jump: IP + size + rel8
ShortTarget(c, ins) == relative_offset_u16(c.ip, AsI8(ins.operand1_type.v) + ins.size)

\* the target of a near jump: IP + size + rel16
NearTarget(c, ins) == relative_offset_u16(c.ip, AsI16(ins.operand1_type.v) + ins.size)

\* `jump = true`
Jumped(c) == [c EXCEPT !.jump = TRUE]

\* a Jcc whose opcodes 0x60-0x6F never jump
Arm_JccLowNever(c, ins) ==
    IF ins.opcode >= 112 /\ JccCondition(c, ins.opcode % 16)
    THEN reljmp(cycle(Jumped(c)), ShortTarget(c, ins), TRUE)
    ELSE cycle(c)

\* 0x60-0x7F: Jcc rel8
Arm_Jcc(c, ins) ==
    IF JccCondition(c, ins.opcode % 16)
    THEN reljmp(cycle(Jumped(c)), ShortTarget(c, ins), TRUE)
    ELSE cycle(c)

\* step_over_target = Some(cs:next_i)
StepOver(c, next_i) == [c EXCEPT !.step_over_target = <<c.cs, next_i>>]

\* a FARCALL tail that pushes the offset of the target as the return offset
FarCallPushTarget(c, segment, offset, next_i, wait) ==
    Jumped(push_u16(
        cycles(biu_queue_flush(cycles(
            [push_call_stack(StepOver(c, next_i), "CallF", c.cs, next_i, segment, offset)
                EXCEPT !.cs = segment, !.ip = offset], wait)), 3),
        offset))

\* FARCALL tail: record the call, load CS:IP, flush, push the return offset
FarCall(c, segment, offset, next_i, wait) ==
    Jumped(push_u16(
        cycles(biu_queue_flush(cycles(
            [push_call_stack(StepOver(c, next_i), "CallF", c.cs, next_i, segment, offset)
                EXCEPT !.cs = segment, !.ip = offset], wait)), 3),
        next_i))

\* 0x9A up to the return-offset computation
CallfEnter(c) == cycles(push_register16(cycles(biu_suspend_fetch(cycle(c)), 3), "CS"), 3)

\* 0x9A: CALLF addr16:16
Arm_Callf(c, ins) ==
    IF AddPanics(c.ip, ins.size) THEN Panic(CallfEnter(c))
    ELSE FarCall(CallfEnter(c), ins.operand1_type.s, ins.operand1_type.v,
                 wrapping_add(c.ip, ins.size), 0)

\* 0xC0, 0xC2: RETN imm16
Arm_RetnImm(c, ins) ==
    Jumped(release(cycles(biu_queue_flush(cycles(biu_suspend_fetch(PopIp(cycle(c))), 2)), 3),
                   ins.operand1_type.v))

\* a RETN that flushes the queue in the cycle it suspends the fetch
Arm_RetnNoWait(c) == Jumped(cycles(biu_queue_flush(biu_suspend_fetch(PopIp(c))), 3))

\* 0xC1, 0xC3: RETN
Arm_Retn(c) == Jumped(cycles(biu_queue_flush(cycle(biu_suspend_fetch(PopIp(c)))), 2))

\* 0xC8, 0xCA: RETF imm16
Arm_RetfImm(c, ins) == Jumped(cycle(release(farret(c, TRUE), ins.operand1_type.v)))

\* 0xC9, 0xCB: RETF
Arm_Retf(c) == Jumped(farret(cycle(c), TRUE))

\* an INT that enters the handler with IP still at the INT itself
IntReturnNoAdvance(c, ins) == [c EXCEPT !.step_over_target = <<c.cs, c.ip>>]

\* the return address INT/INT3/INTO leave in IP before entering the handler
IntReturn(c, ins) ==
    [c EXCEPT !.ip = wrapping_add(c.ip, ins.size),
              !.step_over_target = <<c.cs, wrapping_add(c.ip, ins.size)>>]

\* 0xCC: INT 3
Arm_Int3(c, ins) == Jumped(int3(cycles(IntReturn(c, ins), 4)))

\* 0xCD: INT imm8
Arm_Int(c, ins) == Jumped(sw_interrupt(cycle(IntReturn(c, ins)), ins.operand1_type.v))

\* 0xCE: INTO
Arm_Into(c, ins) ==
    IF get_flag(c, "OF") THEN Jumped(sw_interrupt(IntReturn(c, ins), 4)) ELSE c

\* 0xCF: IRET
Arm_Iret(c) == Jumped(iret_routine(c))

\* LOOPNE/LOOPE/LOOP after the decrement: jump while CX # 0 and cond
LoopJump(c, ins, cond) ==
    IF c.cx # 0 /\ cond THEN Jumped(reljmp(c, ShortTarget(c, ins), TRUE)) ELSE cycle(c)

\* 0xE0, 0xE1: LOOPNE, LOOPE
Arm_Loopne(c, ins) ==
    LoopJump(cycles(decrement_register16(c, "CX"), 2), ins,
             IF ins.opcode = 225 THEN get_flag(c, "ZF") ELSE ~get_flag(c, "ZF"))

\* a LOOP that tests CX before decrementing it
Arm_LoopTestFirst(c, ins) ==
    IF c.cx # 0
    THEN Jumped(reljmp(cycles(decrement_register16(c, "CX"), 2), ShortTarget(c, ins), TRUE))
    ELSE cycle(cycles(decrement_register16(c, "CX"), 2))

\* 0xE2: LOOP
Arm_Loop(c, ins) == LoopJump(cycles(decrement_register16(c, "CX"), 2), ins, TRUE)

\* 0xE3: JCXZ
Arm_Jcxz(c, ins) ==
    IF c.cx = 0 THEN Jumped(reljmp(cycle(cycles(c, 2)), ShortTarget(c, ins), TRUE))
    ELSE cycle(cycle(cycles(c, 2)))

\* NEARCALL tail: record the call, load IP, flush, push the return offset
NearCall(c, next_i, new_ip) ==
    Jumped(push_u16(
        cycles(biu_queue_flush([push_call_stack(c, "Call", c.cs, next_i, c.cs, new_ip)
                                   EXCEPT !.ip = new_ip]), 3),
        next_i))

\* 0xE8 up to the target computation
CallRel16Enter(c, ins) ==
    StepOver(cycles(biu_suspend_fetch(c), 4), wrapping_add(c.ip, ins.size))

\* 0xE8: CALL rel16
Arm_CallRel16(c, ins) ==
    IF AddI16Panics(AsI16(ins.operand1_type.v), ins.size) THEN Panic(CallRel16Enter(c, ins))
    ELSE NearCall(CallRel16Enter(c, ins), wrapping_add(c.ip, ins.size), NearTarget(c, ins))

\* 0xE9: JMP rel16
Arm_JmpRel16(c, ins) ==
    IF AddI16Panics(AsI16(ins.operand1_type.v), ins.size) THEN Panic(c)
    ELSE Jumped(reljmp(c, NearTarget(c, ins), FALSE))

\* 0xEA: JMP FAR addr16:16
Arm_JmpFar(c, ins) ==
    Jumped(cycle(biu_queue_flush(cycles(biu_suspend_fetch(
        [c EXCEPT !.cs = ins.operand1_type.s, !.ip = ins.operand1_type.v]), 2))))

\* 0xEB: JMP rel8
Arm_JmpRel8(c, ins) == Jumped(reljmp(c, ShortTarget(c, ins), TRUE))

\* 0xF0, 0xF2, 0xF3: a prefix byte dispatched as an opcode
Arm_Unhandled(c) == [c EXCEPT !.unhandled = TRUE]

\* 0xF1
Arm_F1(c) == cycle(c)

----------------------------------------------------------------------------
(* Opcode arms: Group 4 (0xFE), the 8-bit forms of INC/DEC/CALL/CALLF/JMP/JMPF/PUSH *)

\* "temporary timings": suspend, 4 cycles, flush
TemporaryTimings(c) == biu_queue_flush(cycles(biu_suspend_fetch(c), 4))

\* INC/DEC r/m (0xFE and 0xFF)
GroupIncDec(c, ins, wide) ==
    write_operand(
        MemCycles(math_op(read_operand(c, ins.operand1_type, ins.segment_override, wide),
                          ins.mnemonic,
                          OperandValue(c, ins.operand1_type, ins.segment_override, wide),
                          0, wide), ins),
        ins.operand1_type, ins.segment_override,
        MathResult(c, ins.mnemonic,
                   OperandValue(c, ins.operand1_type, ins.segment_override, wide), 0, wide),
        wide)

\* the low byte of the return offset is pushed, the queue is flushed, and
\* only then is IP assigned
Call8(c, next_i, new_ip) ==
    [TemporaryTimings(push_u8(c, next_i % 256)) EXCEPT !.ip = new_ip, !.jump = TRUE]

\* 0xFE CALL
Group4Call(c, ins) ==
    IF IsMem(ins.operand1_type)
    THEN IF AddPanics(c.ip, ins.size)
         THEN Panic(read_operand8(c, ins.operand1_type, ins.segment_override))
         ELSE Call8(read_operand8(c, ins.operand1_type, ins.segment_override),
                    wrapping_add(c.ip, ins.size),
                    65280 + OperandValue8(c, ins.operand1_type, ins.segment_override))
    ELSE IF ins.operand1_type.t = "Register8"
    THEN IF AddPanics(c.ip, ins.size) THEN Panic(c)
         ELSE Call8(c, wrapping_add(c.ip, ins.size),
                    get_register16(c, reg8to16(ins.operand1_type.r)))
    ELSE Jumped(c)

\* the linear addresses of the offset byte and the segment byte of an 8-bit
\* far pointer (no segment override is applied)
Far8OffsetAddr(c, op) ==
    calc_linear_address(SegmentValue(c, EaSegment(op, "None")), EaOffset(c, op))
Far8SegmentAddr(c, op) ==
    calc_linear_address(SegmentValue(c, EaSegment(op, "None")),
                        wrapping_add(EaOffset(c, op), 2))

\* 0xFE CALLF m: CS:IP are loaded, then the queue is flushed
Callf8Mem(c, ins, offset, segment) ==
    Jumped(push_u8(
        cycles(biu_queue_flush(cycles(
            [push_u8(c, c.cs % 256) EXCEPT !.cs = 65280 + segment, !.ip = 65280 + offset],
            3)), 3),
        wrapping_add(c.ip, ins.size) % 256))

\* 0xFE CALLF
Group4Callf(c, ins) ==
    IF IsMem(ins.operand1_type)
    THEN IF AddPanics(EaOffset(c, ins.operand1_type), 2)
         THEN Panic(load_ea(c, ins.operand1_type))
         ELSE Callf8Mem(
                  cycles(biu_suspend_fetch(cycle(
                      biu_read_u8(cycles(biu_read_u8(load_ea(c, ins.operand1_type),
                                                     Far8OffsetAddr(c, ins.operand1_type)), 3),
                                  Far8SegmentAddr(c, ins.operand1_type)))), 3),
                  ins,
                  MemRead(c, Far8OffsetAddr(c, ins.operand1_type)),
                  MemRead(c, Far8SegmentAddr(c, ins.operand1_type)))
    ELSE IF ins.operand1_type.t = "Register8"
    THEN [TemporaryTimings(push_u8(push_u8(biu_read_u8(c, 4), c.cs % 256),
                                   wrapping_add(c.ip, ins.size) % 256))
             EXCEPT !.ip = get_register16(c, reg8to16(ins.operand1_type.r))]
    ELSE c

\* 0xFE JMP
Group4Jmp(c, ins) ==
    Jumped(TemporaryTimings(
        [read_operand8(c, ins.operand1_type, ins.segment_override)
            EXCEPT !.ip = 65280 + OperandValue8(c, ins.operand1_type, ins.segment_override)]))

\* 0xFE JMPF: the queue is flushed, then CS:IP are assigned
Group4Jmpf(c, ins) ==
    IF IsMem(ins.operand1_type)
    THEN IF AddPanics(EaOffset(c, ins.operand1_type), 2)
         THEN Panic(load_ea(c, ins.operand1_type))
         ELSE [TemporaryTimings(
                   biu_read_u8(biu_read_u8(load_ea(c, ins.operand1_type),
                                           Far8OffsetAddr(c, ins.operand1_type)),
                               Far8SegmentAddr(c, ins.operand1_type)))
                 EXCEPT !.cs = 65280 + MemRead(c, Far8SegmentAddr(c, ins.operand1_type)),
                        !.ip = 65280 + MemRead(c, Far8OffsetAddr(c, ins.operand1_type)),
                        !.jump = TRUE]
    ELSE IF ins.operand1_type.t = "Register8"
    THEN [TemporaryTimings(biu_read_u8(c, 4))
             EXCEPT !.ip = get_register16(c, reg8to16(ins.operand1_type.r))]
    ELSE c

Arm_Group4(c, ins) ==
    CASE ins.mnemonic \in {"INC", "DEC"} -> GroupIncDec(c, ins, FALSE)
      [] ins.mnemonic = "CALL" -> Group4Call(c, ins)
      [] ins.mnemonic = "CALLF" -> Group4Callf(c, ins)
      [] ins.mnemonic = "JMP" -> Group4Jmp(c, ins)
      [] ins.mnemonic = "JMPF" -> Group4Jmpf(c, ins)
      [] ins.mnemonic = "PUSH" ->
           push_u8(cycles(read_operand8(c, ins.operand1_type, ins.segment_override), 3),
                   OperandValue8(c, ins.operand1_type, ins.segment_override))
      [] OTHER -> [c EXCEPT !.unhandled = TRUE]

----------------------------------------------------------------------------
(* Opcode arms: Group 5 (0xFF) *)

\* the segment the register forms of CALLF/JMPF read their pointer from
Group5Seg(ovr) == IF ovr = "None" THEN "DS" ELSE ovr

\* 0xFF CALL up to the return-offset computation
Call16Enter(c, ins) ==
    cycles(biu_suspend_fetch(read_operand16(c, ins.operand1_type, ins.segment_override)), 4)

\* 0xFF CALL r16: IP takes the register, flush, push the return offset
Call16Reg(c, next_i, new_ip) ==
    push_u16(cycles(biu_queue_flush([c EXCEPT !.ip = new_ip]), 3), next_i)

\* 0xFF CALL
Group5Call(c, ins) ==
    IF IsMem(ins.operand1_type)
    THEN IF AddPanics(c.ip, ins.size) THEN Panic(Call16Enter(c, ins))
         ELSE NearCall(StepOver(Call16Enter(c, ins), wrapping_add(c.ip, ins.size)),
                       wrapping_add(c.ip, ins.size),
                       OperandValue16(c, ins.operand1_type, ins.segment_override))
    ELSE IF ins.operand1_type.t = "Register16"
    THEN IF AddPanics(c.ip, ins.size) THEN Panic(cycles(biu_suspend_fetch(c), 4))
         ELSE Jumped(Call16Reg(cycles(biu_suspend_fetch(c), 4),
                               wrapping_add(c.ip, ins.size),
                               get_register16(c, ins.operand1_type.r)))
    ELSE Jumped(c)

\* 0xFF CALLF m16:16 up to the return-offset computation
Callf16Enter(c, ins) ==
    push_register16(
        cycles(biu_suspend_fetch(cycle(
            read_operand_farptr(cycle(c), ins.operand1_type, ins.segment_override))), 3),
        "CS")

\* 0xFF CALLF r16: only CS is loaded, from Seg:0004
Callf16Reg(c, ins, segment) ==
    push_u16(
        cycles(biu_queue_flush(cycles(
            [push_register16(cycles(biu_suspend_fetch(cycle(
                 biu_read_u16(c, SegmentValue(c, Group5Seg(ins.segment_override)), 4))), 3),
                 "CS")
               EXCEPT !.cs = segment], 3)), 3),
        wrapping_add(c.ip, ins.size))

\* 0xFF CALLF
Group5Callf(c, ins) ==
    IF IsMem(ins.operand1_type)
    THEN IF AddPanics(c.ip, ins.size) THEN Panic(Callf16Enter(c, ins))
         ELSE FarCall(Callf16Enter(c, ins),
                      FarPtrSegment(c, ins.operand1_type, ins.segment_override),
                      FarPtrOffset(c, ins.operand1_type, ins.segment_override),
                      wrapping_add(c.ip, ins.size), 3)
    ELSE IF ins.operand1_type.t = "Register16"
    THEN Jumped(Callf16Reg(c, ins,
                    ReadU16(c, SegmentValue(c, Group5Seg(ins.segment_override)), 4)))
    ELSE Jumped(c)

\* 0xFF JMP
Group5Jmp(c, ins) ==
    Jumped(biu_queue_flush(
        [cycle(biu_suspend_fetch(read_operand16(c, ins.operand1_type, ins.segment_override)))
            EXCEPT !.ip = OperandValue16(c, ins.operand1_type, ins.segment_override)]))

\* 0xFF JMPF
Group5Jmpf(c, ins) ==
    IF IsMem(ins.operand1_type)
    THEN Jumped(biu_queue_flush(
             [read_operand_farptr(cycle(biu_suspend_fetch(cycle(c))),
                                  ins.operand1_type, ins.segment_override)
                EXCEPT !.cs = FarPtrSegment(c, ins.operand1_type, ins.segment_override),
                       !.ip = FarPtrOffset(c, ins.operand1_type, ins.segment_override)]))
    ELSE Jumped(biu_queue_flush(
             [biu_read_u16(cycle(biu_suspend_fetch(cycle(c))),
                           SegmentValue(c, Group5Seg(ins.segment_override)), 4)
                EXCEPT !.cs = ReadU16(c, SegmentValue(c, Group5Seg(ins.segment_override)), 4)]))

\* a 0xFF PUSH that pushes the operand as read, SP included
Group5PushOld(c, ins) ==
    push_u16(cycles(read_operand16(c, ins.operand1_type, ins.segment_override), 3),
             OperandValue16(c, ins.operand1_type, ins.segment_override))

\* 0xFF PUSH: PUSH SP pushes the new value of SP
Group5Push(c, ins) ==
    push_u16(cycles(read_operand16(c, ins.operand1_type, ins.segment_override), 3),
             IF ins.operand1_type.t = "Register16" /\ ins.operand1_type.r = "SP"
             THEN wrapping_sub(c.sp, 2)
             ELSE OperandValue16(c, ins.operand1_type, ins.segment_override))

Arm_Group5(c, ins) ==
    CASE ins.mnemonic \in {"INC", "DEC"} -> GroupIncDec(c, ins, TRUE)
      [] ins.mnemonic = "CALL" -> Group5Call(c, ins)
      [] ins.mnemonic = "CALLF" -> Group5Callf(c, ins)
      [] ins.mnemonic = "JMP" -> Group5Jmp(c, ins)
      [] ins.mnemonic = "JMPF" -> Group5Jmpf(c, ins)
      [] ins.mnemonic = "PUSH" -> Group5Push(c, ins)
      [] OTHER -> [c EXCEPT !.unhandled = TRUE]

----------------------------------------------------------------------------
(* execute_instruction: opcode dispatch, epilogue, result *)

\* opcodes of the register/memory ALU arms (ADD OR ADC SBB AND SUB XOR)
AluOpcodes == {b * 8 + k : b \in {0, 1, 2, 3, 4, 5, 6}, k \in 0..5}

\* `match self.i.opcode` (opcodes are written in decimal)
Dispatch(c, ins) ==
    LET op == ins.opcode
    IN  CASE op \in AluOpcodes -> Arm_Alu(c, ins, op % 2 = 1)
          [] op \in {6, 14, 22, 30} -> Arm_PushSeg(c, ins.operand1_type.r)
          [] op \in {7, 15, 23, 31} -> Arm_PopSeg(c, ins.operand1_type.r)
          [] op \in 56..61 -> Arm_Cmp(c, ins, op % 2 = 1)
          [] op \in 64..79 -> Arm_IncDec16(c, ins)
          [] op \in 80..87 -> Arm_PushReg(c, ins)
          [] op \in 88..95 -> Arm_PopReg(c, ins)
          [] op \in 96..127 -> Arm_Jcc(c, ins)
          [] op \in 128..131 -> Arm_Group1(c, ins)
          [] op \in {132, 133} -> Arm_Test(c, ins, op = 133)
          [] op \in {134, 135} -> Arm_Xchg(c, ins, op = 135)
          [] op \in 136..139 -> Arm_Mov(c, ins, op % 2 = 1)
          [] op = 141 -> Arm_Lea(c, ins)
          [] op \in {168, 169} -> Arm_TestAcc(c, ins, op = 169)
          [] op \in {140, 142} -> Arm_MovSreg(c, ins)
          [] op \in 144..151 -> Arm_XchgAx(c, ins)
          [] op = 154 -> Arm_Callf(c, ins)
          [] op \in {164, 165} -> Arm_Movs(c, ins)
          [] op \in {166, 167, 174, 175} -> Arm_CmpsScas(c, ins)
          [] op \in {170, 171} -> Arm_Stos(c, ins)
          [] op \in {172, 173} -> Arm_Lods(c, ins)
          [] op \in 176..191 -> Arm_MovImm(c, ins)
          [] op \in {192, 194} -> Arm_RetnImm(c, ins)
          [] op \in {193, 195} -> Arm_Retn(c)
          [] op \in {200, 202} -> Arm_RetfImm(c, ins)
          [] op \in {201, 203} -> Arm_Retf(c)
          [] op = 204 -> Arm_Int3(c, ins)
          [] op = 205 -> Arm_Int(c, ins)
          [] op = 206 -> Arm_Into(c, ins)
          [] op = 207 -> Arm_Iret(c)
          [] op \in {208, 209} -> Arm_Shift1(c, ins, op = 209)
          [] op \in {210, 211} -> Arm_ShiftCl(c, ins, op = 211)
          [] op = 212 -> Arm_Aam(c, ins)
          [] op \in {224, 225} -> Arm_Loopne(c, ins)
          [] op \in {228, 229} -> Arm_InImm(c, ins)
          [] op \in {230, 231} -> Arm_OutImm(c, ins)
          [] op \in {236, 237} -> Arm_InDx(c, ins)
          [] op \in {238, 239} -> Arm_OutDx(c, ins)
          [] op = 226 -> Arm_Loop(c, ins)
          [] op = 227 -> Arm_Jcxz(c, ins)
          [] op = 232 -> Arm_CallRel16(c, ins)
          [] op = 233 -> Arm_JmpRel16(c, ins)
          [] op = 234 -> Arm_JmpFar(c, ins)
          [] op = 235 -> Arm_JmpRel8(c, ins)
          [] op \in {240, 242, 243} -> Arm_Unhandled(c)
          [] op = 241 -> Arm_F1(c)
          [] op = 244 -> Arm_Hlt(c)
          [] op \in {245, 248, 249, 250, 251, 252, 253} -> Arm_FlagOp(c, ins)
          [] op = 246 -> Arm_Group3(c, ins, FALSE)
          [] op = 247 -> Arm_Group3(c, ins, TRUE)
          [] op = 254 -> Arm_Group4(c, ins)
          [] op = 255 -> Arm_Group5(c, ins)

\* an epilogue that advances IP whenever the arm did not jump
EpilogueAlways(c, ins) ==
    LET c1 == IF ~c.in_rep THEN [c EXCEPT !.rep_init = FALSE] ELSE c
    IN  IF ~c.jump THEN [c1 EXCEPT !.ip = wrapping_add(@, ins.size)] ELSE c1

\* an epilogue that leaves IP alone
EpilogueNoAdvance(c, ins) == IF ~c.in_rep THEN [c EXCEPT !.rep_init = FALSE] ELSE c

\* an epilogue that never resets rep_init
EpilogueKeepInit(c, ins) ==
    IF ~c.in_rep /\ ~c.jump THEN [c EXCEPT !.ip = wrapping_add(@, ins.size)] ELSE c

\* "Reset REP init flag ... If we are not in a REP and didn't jump, update IP"
Epilogue(c, ins) ==
    IF ~c.in_rep
    THEN LET c1 == [c EXCEPT !.rep_init = FALSE]
         IN  IF ~c.jump THEN [c1 EXCEPT !.ip = wrapping_add(@, ins.size)] ELSE c1
    ELSE c

\* a classification that reports Halt for every halted CPU
ResultOfHaltAlways(c) ==
    IF c.panicked \/ c.unhandled THEN "Panic"
    ELSE IF c.halted THEN "Halt"
    ELSE IF c.jump THEN "OkayJump"
    ELSE IF c.in_rep THEN "OkayRep"
    ELSE IF c.exception = "DivideError" THEN "DivideError"
    ELSE "Okay"

\* the ExecutionResult; "Panic" stands for a call that does not return
\* (unreachable!() on an unhandled opcode, or an arithmetic-overflow panic)
ResultOf(c) ==
    IF c.panicked \/ c.unhandled THEN "Panic"
    ELSE IF c.halted /\ ~get_flag(c, "IF") THEN "Halt"
    ELSE IF c.jump THEN "OkayJump"
    ELSE IF c.in_rep THEN "OkayRep"
    ELSE IF c.exception = "DivideError" THEN "DivideError"
    ELSE "Okay"

\* the OkayRep branch sets rep_init
Classify(c) == IF ResultOf(c) = "OkayRep" THEN [c EXCEPT !.rep_init = TRUE] ELSE c

\* what follows the opcode match; a panic inside an arm ends the call there
Finish(c, ins) == IF c.panicked THEN c ELSE Classify(Epilogue(c, ins))

\* one call of Cpu::execute_instruction on the decoded instruction ins, with
\* the host's pending_interrupt input
execute_instruction(c, ins, pend) ==
    Finish(Dispatch(BeforeDispatch(EnterCall(c, pend), ins), ins), ins)

----------------------------------------------------------------------------
(* Decoded instructions the host loop hands to execute_instruction *)

NoPrefix == {}
Rep  == {OPCODE_PREFIX_REP2}
Repn == {OPCODE_PREFIX_REP1}

\* an Instruction: size counts the prefix bytes
Instr(op, mn, pfx, o1, o2, size) ==
    [opcode |-> op, mnemonic |-> mn, prefixes |-> pfx, segment_override |-> "None",
     operand1_type |-> o1, operand2_type |-> o2, size |-> size + Cardinality(pfx),
     group_delay |-> FALSE]

WithOverride(ins, ovr) == [ins EXCEPT !.segment_override = ovr, !.size = @ + 1]
WithGroupDelay(ins) == [ins EXCEPT !.group_delay = TRUE]

MemBx == AddressingMode("Bx", 0)
MemWrap == AddressingMode("Disp16", 65535)

DataInstr ==
    { Instr(0, "ADD", NoPrefix, Register8("AL"), Register8("BL"), 2),
      Instr(5, "ADD", NoPrefix, Register16("AX"), Immediate16(65535), 3),
      Instr(41, "SUB", NoPrefix, MemBx, Register16("AX"), 2),
      Instr(50, "XOR", NoPrefix, Register8("AL"), Register8("AL"), 2),
      Instr(6, "PUSH", NoPrefix, Register16("ES"), NoOperand, 1),
      Instr(14, "PUSH", NoPrefix, Register16("CS"), NoOperand, 1),
      Instr(7, "POP", NoPrefix, Register16("ES"), NoOperand, 1),
      Instr(15, "POP", NoPrefix, Register16("CS"), NoOperand, 1),
      Instr(60, "CMP", NoPrefix, Register8("AL"), Immediate8(100), 2),
      Instr(57, "CMP", NoPrefix, Register16("AX"), Register16("CX"), 2),
      Instr(65, "INC", NoPrefix, Register16("CX"), NoOperand, 1),
      Instr(73, "DEC", NoPrefix, Register16("CX"), NoOperand, 1),
      Instr(84, "PUSH", NoPrefix, Register16("SP"), NoOperand, 1),
      Instr(91, "POP", NoPrefix, Register16("BX"), NoOperand, 1),
      Instr(137, "MOV", NoPrefix, Register16("AX"), Register16("CX"), 2),
      Instr(136, "MOV", NoPrefix, MemBx, Register8("AL"), 2),
      WithOverride(Instr(138, "MOV", NoPrefix, Register8("AL"), MemBx, 2), "ES"),
      Instr(140, "MOV", NoPrefix, Register16("AX"), Register16("ES"), 2),
      Instr(142, "MOV", NoPrefix, Register16("DS"), Register16("AX"), 2),
      Instr(142, "MOV", NoPrefix, Register16("CS"), Register16("AX"), 2),
      Instr(144, "NOP", NoPrefix, NoOperand, NoOperand, 1),
      Instr(144, "NOP", Rep, NoOperand, NoOperand, 1),
      Instr(145, "XCHG", NoPrefix, Register16("AX"), Register16("CX"), 1),
      Instr(177, "MOV", NoPrefix, Register8("CL"), Immediate8(1), 2),
      Instr(184, "MOV", NoPrefix, Register16("AX"), Immediate16(4660), 3),
      Instr(212, "AAM", NoPrefix, Immediate8(10), NoOperand, 2),
      Instr(212, "AAM", NoPrefix, Immediate8(0), NoOperand, 2),
      Instr(212, "AAM", Rep, Immediate8(0), NoOperand, 2),
      Instr(212, "AAM", Repn, Immediate8(0), NoOperand, 2),
      Instr(241, "NOP", NoPrefix, NoOperand, NoOperand, 1),
      Instr(245, "CMC", NoPrefix, NoOperand, NoOperand, 1),
      Instr(248, "CLC", NoPrefix, NoOperand, NoOperand, 1),
      Instr(249, "STC", NoPrefix, NoOperand, NoOperand, 1),
      Instr(250, "CLI", NoPrefix, NoOperand, NoOperand, 1),
      Instr(251, "STI", NoPrefix, NoOperand, NoOperand, 1),
      Instr(252, "CLD", NoPrefix, NoOperand, NoOperand, 1),
      Instr(253, "STD", NoPrefix, NoOperand, NoOperand, 1),
      Instr(244, "HLT", NoPrefix, NoOperand, NoOperand, 1),
      Instr(0, "ADD", NoPrefix, MemBx, Register8("AL"), 2) }

\* port I/O, by immediate port and by DX
IoInstr ==
    { Instr(228, "IN", NoPrefix, Register8("AL"), Immediate8(96), 2),
      Instr(229, "IN", NoPrefix, Register16("AX"), Immediate8(96), 2),
      Instr(230, "OUT", NoPrefix, Immediate8(96), Register8("AL"), 2),
      Instr(231, "OUT", NoPrefix, Immediate8(96), Register16("AX"), 2),
      Instr(236, "IN", NoPrefix, Register8("AL"), Register16("DX"), 1),
      Instr(237, "IN", NoPrefix, Register16("AX"), Register16("DX"), 1),
      Instr(238, "OUT", NoPrefix, Register16("DX"), Register8("AL"), 1),
      Instr(239, "OUT", NoPrefix, Register16("DX"), Register16("AX"), 1) }

ShiftMnemonics == {"ROL", "ROR", "RCL", "RCR", "SHL", "SHR", "SAR"}

\* shifts and rotates by 1 and by CL, on a register and on memory
ShiftInstr ==
    { WithGroupDelay(Instr(210, mn, NoPrefix, o1, Register8("CL"), 2)) :
        mn \in ShiftMnemonics, o1 \in {Register8("AL"), MemBx} }
    \cup
    { WithGroupDelay(Instr(211, mn, NoPrefix, o1, Register8("CL"), 2)) :
        mn \in ShiftMnemonics, o1 \in {Register16("AX"), MemBx} }
    \cup
    { WithGroupDelay(Instr(208, mn, NoPrefix, Register8("AL"), NoOperand, 2)) :
        mn \in ShiftMnemonics }
    \cup
    { WithGroupDelay(Instr(209, mn, NoPrefix, MemBx, NoOperand, 2)) :
        mn \in ShiftMnemonics }

\* string instructions, bare and with each REP prefix
StringInstr ==
    { Instr(op[1], op[2], pfx, NoOperand, NoOperand, 1) :
        op \in {<<164, "MOVSB">>, <<165, "MOVSW">>, <<166, "CMPSB">>, <<167, "CMPSW">>,
                <<170, "STOSB">>, <<171, "STOSW">>, <<172, "LODSB">>, <<173, "LODSW">>,
                <<174, "SCASB">>, <<175, "SCASW">>},
        pfx \in {NoPrefix, Rep, Repn} }
    \cup { WithOverride(Instr(164, "MOVSB", Rep, NoOperand, NoOperand, 1), "ES") }

\* Group 3, bare and with each REP prefix
Group3Instr ==
    { WithGroupDelay(Instr(246, x[1], pfx, x[2], NoOperand, 2)) :
        x \in {<<"MUL", Register8("CL")>>, <<"IMUL", Register8("CL")>>,
               <<"DIV", Register8("CL")>>, <<"IDIV", Register8("CL")>>,
               <<"DIV", Register8("BL")>>, <<"IDIV", MemBx>>,
               <<"NOT", Register8("AL")>>, <<"NEG", MemBx>>},
        pfx \in {NoPrefix, Rep, Repn} }
    \cup
    { WithGroupDelay(Instr(247, x[1], pfx, x[2], NoOperand, 2)) :
        x \in {<<"MUL", Register16("CX")>>, <<"IMUL", Register16("CX")>>,
               <<"DIV", Register16("CX")>>, <<"IDIV", Register16("CX")>>,
               <<"DIV", Register16("BX")>>, <<"NEG", Register16("AX")>>},
        pfx \in {NoPrefix, Rep, Repn} }
    \cup
    { WithGroupDelay(Instr(246, "TEST", NoPrefix, Register8("AL"), Immediate8(1), 3)),
      WithGroupDelay(Instr(247, "TEST", NoPrefix, Register16("AX"), Immediate16(256), 4)) }


\* jumps, calls, returns, software interrupts
FlowInstr ==
    { Instr(op, "Jcc", NoPrefix, Relative8(rel), NoOperand, 2) :
        op \in {112, 116, 117, 124, 100}, rel \in {16, 254} }
    \cup
    { Instr(x[1], x[2], NoPrefix, Relative8(rel), NoOperand, 2) :
        x \in {<<224, "LOOPNE">>, <<225, "LOOPE">>, <<226, "LOOP">>, <<227, "JCXZ">>,
               <<235, "JMP">>},
        rel \in {16, 254} }
    \cup
    { Instr(x[1], x[2], NoPrefix, Relative16(rel), NoOperand, 3) :
        x \in {<<232, "CALL">>, <<233, "JMP">>}, rel \in {16, 65533, 32767} }
    \cup
    { Instr(154, "CALLF", NoPrefix, FarAddress(24576, 4660), NoOperand, 5),
      Instr(234, "JMPF", NoPrefix, FarAddress(24576, 4660), NoOperand, 5),
      Instr(194, "RETN", NoPrefix, Immediate16(4), NoOperand, 3),
      Instr(195, "RETN", NoPrefix, NoOperand, NoOperand, 1),
      Instr(202, "RETF", NoPrefix, Immediate16(4), NoOperand, 3),
      Instr(203, "RETF", NoPrefix, NoOperand, NoOperand, 1),
      Instr(204, "INT3", NoPrefix, NoOperand, NoOperand, 1),
      Instr(205, "INT", NoPrefix, Immediate8(8), NoOperand, 2),
      Instr(206, "INTO", NoPrefix, NoOperand, NoOperand, 1),
      Instr(207, "IRET", NoPrefix, NoOperand, NoOperand, 1),
      Instr(240, "LOCK", NoPrefix, NoOperand, NoOperand, 1),
      Instr(242, "REPNE", NoPrefix, NoOperand, NoOperand, 1),
      Instr(243, "REP", NoPrefix, NoOperand, NoOperand, 1) }

\* Group 4 (0xFE) and Group 5 (0xFF)
Group45Instr ==
    { WithGroupDelay(Instr(254, mn, NoPrefix, o1, NoOperand, 2)) :
        mn \in {"INC", "DEC", "CALL", "CALLF", "JMP", "JMPF", "PUSH"},
        o1 \in {Register8("DL"), MemBx} }
    \cup
    { WithGroupDelay(Instr(255, mn, NoPrefix, o1, NoOperand, 2)) :
        mn \in {"INC", "DEC", "CALL", "CALLF", "JMP", "JMPF", "PUSH"},
        o1 \in {Register16("DX"), Register16("SP"), MemBx} }
    \cup
    { WithGroupDelay(Instr(254, mn, NoPrefix, MemWrap, NoOperand, 4)) :
        mn \in {"CALLF", "JMPF"} }

\* REP and REPNE prefixes on instructions that are neither string operations
\* nor MUL/IMUL/DIV/IDIV
RepInvalidInstr ==
    { Instr(x[1], x[2], pfx, x[3], x[4], x[5]) :
        x \in {<<5, "ADD", Register16("AX"), Immediate16(65535), 3>>,
               <<136, "MOV", MemBx, Register8("AL"), 2>>,
               <<6, "PUSH", Register16("ES"), NoOperand, 1>>,
               <<65, "INC", Register16("CX"), NoOperand, 1>>,
               <<116, "Jcc", Relative8(16), NoOperand, 2>>,
               <<226, "LOOP", Relative8(254), NoOperand, 2>>,
               <<232, "CALL", Relative16(16), NoOperand, 3>>,
               <<154, "CALLF", FarAddress(24576, 4660), NoOperand, 5>>,
               <<195, "RETN", NoOperand, NoOperand, 1>>,
               <<205, "INT", Immediate8(8), NoOperand, 2>>,
               <<238, "OUT", Register16("DX"), Register8("AL"), 1>>,
               <<244, "HLT", NoOperand, NoOperand, 1>>},
        pfx \in {Rep, Repn} }

AllInstr ==
    DataInstr \cup IoInstr \cup StringInstr \cup Group3Instr \cup FlowInstr \cup Group45Instr
      \cup RepInvalidInstr

\* the instructions of the two-instruction sequences: REP string operations
\* with an interrupt handler's IRET, and the HLT idioms
SeqInstr ==
    { ins \in StringInstr : ins.mnemonic \in {"MOVSB", "STOSW", "LODSB", "CMPSB", "SCASB"}
                            /\ ins.segment_override = "None" }
    \cup
    { ins \in DataInstr : ins.mnemonic \in {"CLI", "STI", "HLT"} }
    \cup
    { ins \in FlowInstr : ins.mnemonic = "IRET" }
    \cup
    { ins \in Group3Instr : ins.opcode = 246 /\ ins.mnemonic \in {"MUL", "DIV"}
                            /\ ins.operand1_type = Register8("CL") }

\* PUSH r16 and POP r16 for the eight registers, and PUSH r16 as 0xFF /6
StackInstr ==
    { Instr(80 + k, "PUSH", NoPrefix, Register16(REGISTER16_LUT[k + 1]), NoOperand, 1) :
        k \in 0..7 }
    \cup
    { Instr(88 + k, "POP", NoPrefix, Register16(REGISTER16_LUT[k + 1]), NoOperand, 1) :
        k \in 0..7 }
    \cup
    { WithGroupDelay(Instr(255, "PUSH", NoPrefix, Register16(REGISTER16_LUT[k + 1]),
                           NoOperand, 2)) : k \in 0..7 }

----------------------------------------------------------------------------
(* The machine state the host loop starts from *)

\* bus memory: a return frame at SS:SP, two interrupt vectors, string data
\* at DS:SI and ES:DI, a far pointer at DS:BX
InitMem ==
    (262400 :> 52) @@ (262401 :> 2) @@ (262402 :> 0) @@ (262403 :> 16)
      @@ (262404 :> 2) @@ (262405 :> 242)
      @@ (12 :> 0) @@ (13 :> 3) @@ (14 :> 0) @@ (15 :> 80)
      @@ (32 :> 0) @@ (33 :> 2) @@ (34 :> 0) @@ (35 :> 80)
      @@ (131088 :> 170) @@ (131089 :> 1) @@ (196640 :> 170) @@ (196641 :> 2)
      @@ (131072 :> 120) @@ (131073 :> 86) @@ (131074 :> 0) @@ (131075 :> 96)

\* what the devices at ports 0, 1, 0x60 and 0x61 answer
InitIo == (0 :> 51) @@ (1 :> 68) @@ (96 :> 17) @@ (97 :> 34)

InitFlagSets == {{"IF"}, {"ZF", "CF"}, {"IF", "DF", "OF", "ZF"}}
InitIps == {256, 65534}
InitQueueLens == {0, 4}

InitCpu(cx, ip, flags, qlen) ==
    [ax |-> 100, bx |-> 0, cx |-> cx, dx |-> 0, sp |-> 256, bp |-> 48, si |-> 16, di |-> 32,
     es |-> 12288, cs |-> 4096, ss |-> 16384, ds |-> 8192, ip |-> ip,
     flags |-> flags, mem |-> InitMem, io |-> InitIo,
     queue |-> [k \in 1..qlen |-> (calc_linear_address(4096, ip) + k - 1) % W20],
     fetch_pc |-> (calc_linear_address(4096, ip) + qlen) % W20,
     fetch_suspended |-> FALSE, biu_t |-> 0, biu_halted |-> FALSE,
     last_queue_op |-> "Flush", nx |-> FALSE, cycles |-> 0, trace |-> <<>>,
     call_stack |-> <<>>, ret_bits |-> {}, last_ea |-> 0,
     in_rep |-> FALSE, rep_init |-> FALSE, rep_type |-> "NoRep", rep_mnemonic |-> "NOP",
     halted |-> FALSE, pending_interrupt |-> FALSE, interrupt_inhibit |-> FALSE,
     trap_suppressed |-> FALSE, trap_enable_delay |-> 0, trap_disable_delay |-> 0,
     opcode0_counter |-> 0, off_rails_detection |-> TRUE, step_over_target |-> <<>>,
     jump |-> FALSE, exception |-> "NoException", unhandled |-> FALSE, panicked |-> FALSE]

NoInstr == Instr(144, "NOP", NoPrefix, NoOperand, NoOperand, 1)

Init ==
    /\ \E cx \in 0..MaxCX, ip \in InitIps, flags \in InitFlagSets, qlen \in InitQueueLens :
          cpu = InitCpu(cx, ip, flags, qlen)
    /\ i = NoInstr
    /\ result = "None"
    /\ pre = cpu
    /\ log = <<>>
    /\ prog = <<>>
    /\ overflow_checks \in BOOLEAN

\* shift counts: none, one, more than the operand width, and the largest
ShiftCounts == {0, 1, 9, 33, 255}
ShiftValues == {1, 32897}

\* the start of the shift instructions: CL and AX vary
InitShift ==
    /\ \E cl \in ShiftCounts, ax \in ShiftValues, flags \in InitFlagSets,
          qlen \in InitQueueLens :
          cpu = [InitCpu(cl, 256, flags, qlen) EXCEPT !.ax = ax]
    /\ i = NoInstr
    /\ result = "None"
    /\ pre = cpu
    /\ log = <<>>
    /\ prog = <<>>
    /\ overflow_checks \in BOOLEAN


\* runs of opcode 0x00 (ADD r/m8, r8) broken by NOPs, with and without
\* off-rails detection
RailsInstr ==
    { Instr(0, "ADD", NoPrefix, Register8("AL"), Register8("BL"), 2),
      Instr(0, "ADD", NoPrefix, MemBx, Register8("AL"), 2),
      Instr(144, "NOP", NoPrefix, NoOperand, NoOperand, 1) }

InitRails ==
    /\ \E detect \in BOOLEAN, qlen \in InitQueueLens :
          cpu = [InitCpu(1, 256, {"IF"}, qlen) EXCEPT !.off_rails_detection = detect]
    /\ i = NoInstr
    /\ result = "None"
    /\ pre = cpu
    /\ log = <<>>
    /\ prog = <<>>
    /\ overflow_checks \in BOOLEAN


\* calls and returns, near and far
CallInstr ==
    { Instr(232, "CALL", NoPrefix, Relative16(16), NoOperand, 3),
      Instr(154, "CALLF", NoPrefix, FarAddress(24576, 4660), NoOperand, 5),
      Instr(195, "RETN", NoPrefix, NoOperand, NoOperand, 1),
      Instr(203, "RETF", NoPrefix, NoOperand, NoOperand, 1),
      Instr(144, "NOP", NoPrefix, NoOperand, NoOperand, 1) }

InitCall ==
    /\ cpu = InitCpu(1, 256, {"IF"}, 0)
    /\ i = NoInstr
    /\ result = "None"
    /\ pre = cpu
    /\ log = <<>>
    /\ prog = <<>>
    /\ overflow_checks \in BOOLEAN


\* instructions that end with a deferred RNI (ADD, INC, POP) or without one,
\* of one byte and of two, with and without the group delay
PrologueInstr ==
    { Instr(0, "ADD", NoPrefix, Register8("AL"), Register8("BL"), 2),
      Instr(65, "INC", NoPrefix, Register16("CX"), NoOperand, 1),
      Instr(144, "NOP", NoPrefix, NoOperand, NoOperand, 1),
      Instr(177, "MOV", NoPrefix, Register8("CL"), Immediate8(1), 2),
      WithGroupDelay(Instr(246, "NOT", NoPrefix, Register8("AL"), NoOperand, 2)),
      WithGroupDelay(Instr(255, "INC", NoPrefix, Register16("DX"), NoOperand, 2)) }


MemBxSi == AddressingMode("BxSi", 0)

\* XCHG r, r/m on registers, on halves of one register and on memory whose
\* address uses the register exchanged
XchgInstr ==
    { Instr(134, "XCHG", NoPrefix, x[1], x[2], 2) :
        x \in {<<Register8("AL"), Register8("BL")>>, <<Register8("AL"), Register8("AH")>>,
               <<Register8("BL"), MemBx>>, <<Register8("AL"), MemBxSi>>} }
    \cup
    { Instr(135, "XCHG", NoPrefix, x[1], x[2], 2) :
        x \in {<<Register16("AX"), Register16("CX")>>, <<Register16("DX"), Register16("DX")>>,
               <<Register16("BX"), MemBx>>, <<Register16("SI"), MemBxSi>>,
               <<Register16("AX"), MemWrap>>} }
    \cup
    { WithOverride(Instr(135, "XCHG", NoPrefix, Register16("AX"), MemBx, 2), "ES") }

\* LEA with a memory operand, with an override, and with a register operand
LeaInstr ==
    { Instr(141, "LEA", NoPrefix, x[1], x[2], 2) :
        x \in {<<Register16("AX"), MemBx>>, <<Register16("CX"), AddressingMode("BxSi", 4)>>,
               <<Register16("DX"), MemWrap>>, <<Register16("BX"), AddressingMode("Bp", 65535)>>,
               <<Register16("AX"), Register16("CX")>>, <<Register16("BX"), Register16("BX")>>} }
    \cup
    { WithOverride(Instr(141, "LEA", NoPrefix, Register16("DI"), MemBxSi, 2), "ES") }

\* CMP and TEST in all their encodings
CmpTestInstr ==
    { Instr(56, "CMP", NoPrefix, MemBx, Register8("AL"), 2),
      Instr(57, "CMP", NoPrefix, Register16("AX"), Register16("CX"), 2),
      Instr(58, "CMP", NoPrefix, Register8("AL"), MemBx, 2),
      Instr(59, "CMP", NoPrefix, Register16("CX"), MemBxSi, 2),
      Instr(60, "CMP", NoPrefix, Register8("AL"), Immediate8(100), 2),
      Instr(61, "CMP", NoPrefix, Register16("AX"), Immediate16(4660), 3),
      Instr(128, "CMP", NoPrefix, MemBx, Immediate8(200), 3),
      Instr(130, "CMP", NoPrefix, Register8("AL"), Immediate8(100), 3),
      Instr(129, "CMP", NoPrefix, MemBx, Immediate16(4660), 4),
      Instr(129, "CMP", NoPrefix, Register16("AX"), Immediate16(65535), 4),
      Instr(131, "CMP", NoPrefix, Register16("CX"), Immediate8(255), 3),
      Instr(131, "CMP", NoPrefix, MemBx, Immediate8(1), 3),
      Instr(132, "TEST", NoPrefix, MemBx, Register8("AL"), 2),
      Instr(133, "TEST", NoPrefix, Register16("AX"), Register16("CX"), 2),
      Instr(133, "TEST", NoPrefix, MemBxSi, Register16("AX"), 2),
      Instr(168, "TEST", NoPrefix, Register8("AL"), Immediate8(4), 2),
      Instr(169, "TEST", NoPrefix, Register16("AX"), Immediate16(256), 3),
      WithGroupDelay(Instr(246, "TEST", NoPrefix, MemBx, Immediate8(1), 3)),
      WithGroupDelay(Instr(247, "TEST", NoPrefix, Register16("AX"), Immediate16(256), 4)) }

AluMnemonics == <<"ADD", "OR", "ADC", "SBB", "AND", "SUB", "XOR">>

\* the seven writing mnemonics under 0x00-0x35 and under Group 1
AluInstr ==
    { Instr(8 * (k - 1) + 1, AluMnemonics[k], NoPrefix, MemBx, Register16("AX"), 2) : k \in 1..7 }
    \cup
    { Instr(8 * (k - 1) + 2, AluMnemonics[k], NoPrefix, Register8("AL"), Register8("BL"), 2) :
        k \in 1..7 }
    \cup
    { Instr(8 * (k - 1) + 5, AluMnemonics[k], NoPrefix, Register16("AX"), Immediate16(65535), 3) :
        k \in 1..7 }
    \cup
    { Instr(128, AluMnemonics[k], NoPrefix, MemBx, Immediate8(200), 3) : k \in 1..7 }
    \cup
    { Instr(129, AluMnemonics[k], NoPrefix, Register16("AX"), Immediate16(4660), 4) : k \in 1..7 }
    \cup
    { Instr(131, AluMnemonics[k], NoPrefix, Register16("CX"), Immediate8(255), 3) : k \in 1..7 }

OperandInstr == XchgInstr \cup LeaInstr \cup CmpTestInstr \cup AluInstr

\* the start of the operand instructions: BX and the carry vary
InitOperand ==
    /\ \E bx \in {0, 2}, flags \in {{"IF"}, {"ZF", "CF"}} :
          cpu = [InitCpu(1, 256, flags, 0) EXCEPT !.bx = bx]
    /\ i = NoInstr
    /\ result = "None"
    /\ pre = cpu
    /\ log = <<>>
    /\ prog = <<>>
    /\ overflow_checks \in BOOLEAN


\* LOOPNE, LOOPE, LOOP and JCXZ to themselves (rel8 = -2) and forward, with
\* NOP and a CMP that sets ZF
LoopInstr ==
    { Instr(x[1], x[2], NoPrefix, Relative8(rel), NoOperand, 2) :
        x \in {<<224, "LOOPNE">>, <<225, "LOOPE">>, <<226, "LOOP">>, <<227, "JCXZ">>},
        rel \in {254, 4} }
    \cup
    { Instr(144, "NOP", NoPrefix, NoOperand, NoOperand, 1),
      Instr(57, "CMP", NoPrefix, Register16("AX"), Register16("AX"), 2) }

\* the start of the loops: CX from 0 to 3, ZF set or clear, IP also at the
\* end of the segment
InitLoop ==
    /\ \E cx \in 0..3, flags \in {{"IF"}, {"ZF", "CF"}}, ip \in InitIps :
          cpu = InitCpu(cx, ip, flags, 0)
    /\ i = NoInstr
    /\ result = "None"
    /\ pre = cpu
    /\ log = <<>>
    /\ prog = <<>>
    /\ overflow_checks \in BOOLEAN


\* every Jcc opcode 0x60-0x7F, forward, backward and to the farthest target
JccInstr ==
    { Instr(op, "Jcc", NoPrefix, Relative8(rel), NoOperand, 2) :
        op \in 96..127, rel \in {16, 254, 128} }

ConditionFlags == {"OF", "CF", "ZF", "SF", "PF"}

\* every value of the five flags the conditions read, IF set, IP also at
\* the end of the segment
InitJcc ==
    /\ \E flags \in SUBSET ConditionFlags, ip \in InitIps :
          cpu = InitCpu(1, ip, flags \cup {"IF"}, 0)
    /\ i = NoInstr
    /\ result = "None"
    /\ pre = cpu
    /\ log = <<>>
    /\ prog = <<>>
    /\ overflow_checks \in BOOLEAN


\* every string instruction, bare and repeated, without and with each of
\* three segment overrides
StringOvrInstr ==
    { [ins EXCEPT !.segment_override = ovr,
                  !.size = @ + (IF ovr = "None" THEN 0 ELSE 1)] :
        ins \in { s \in StringInstr : s.segment_override = "None"
                                      /\ OPCODE_PREFIX_REP1 \notin s.prefixes },
        ovr \in {"None", "ES", "CS", "SS"} }

\* the start of the string instructions: CX 1 or 2, DF clear or set
InitString ==
    /\ \E cx \in 1..2, flags \in {{"IF"}, {"IF", "DF"}} :
          cpu = InitCpu(cx, 256, flags, 0)
    /\ i = NoInstr
    /\ result = "None"
    /\ pre = cpu
    /\ log = <<>>
    /\ prog = <<>>
    /\ overflow_checks \in BOOLEAN


\* DIV and IDIV by a register and by memory, 8 and 16 bits wide, bare and
\* with the REP prefix that negates the quotient
DivInstr ==
    { WithGroupDelay(Instr(246, x[1], pfx, x[2], NoOperand, 2)) :
        x \in {"DIV", "IDIV"} \X {Register8("CL"), Register8("BL"), MemBx},
        pfx \in {NoPrefix, Rep} }
    \cup
    { WithGroupDelay(Instr(247, x[1], pfx, x[2], NoOperand, 2)) :
        x \in {"DIV", "IDIV"} \X {Register16("CX"), Register16("BX"), MemBx},
        pfx \in {NoPrefix, Rep} }

\* dividends and divisors that divide, divide by zero, and overflow the
\* quotient
InitDiv ==
    /\ \E ax \in {100, 32768, 65535}, dx \in {0, 1, 32768}, cx \in {0, 1, 2, 255, 65535},
          ip \in InitIps :
          cpu = [InitCpu(cx, ip, {"IF"}, 0) EXCEPT !.ax = ax, !.dx = dx]
    /\ i = NoInstr
    /\ result = "None"
    /\ pre = cpu
    /\ log = <<>>
    /\ prog = <<>>
    /\ overflow_checks \in BOOLEAN

\* stack pointers of the PUSH/POP sequences: mid-segment, and one that wraps
InitSps == {256, 1}

\* the start of the PUSH/POP sequences: every register holds a different value
InitStack ==
    /\ \E ip \in InitIps, qlen \in InitQueueLens, sp \in InitSps, flags \in InitFlagSets :
          cpu = [InitCpu(1, ip, flags, qlen) EXCEPT !.sp = sp, !.dx = 513, !.bx = 770]
    /\ i = NoInstr
    /\ result = "None"
    /\ pre = cpu
    /\ log = <<>>
    /\ prog = <<>>
    /\ overflow_checks \in BOOLEAN

----------------------------------------------------------------------------
(* The host loop *)

\* fetch and decode: the instruction's bytes leave the queue (the BIU fetches
\* the ones it had not prefetched yet)
Decode(c, ins) ==
    LET k == Len(c.queue)
    IN  [c EXCEPT !.queue = IF k >= ins.size THEN SubSeq(@, ins.size + 1, k) ELSE <<>>,
                  !.fetch_pc = IF k >= ins.size THEN @ ELSE (@ + ins.size - k) % W20,
                  !.last_queue_op = IF ins.size = 1 THEN "First" ELSE "Subs"]

\* the host's interrupt line matters to REP-prefixed string instructions only
PendSet(ins) ==
    IF HasRepPrefix(ins) /\ ins.mnemonic \in (StringMnemonicsRep \cup StringMnemonicsRepz)
    THEN BOOLEAN ELSE {FALSE}

\* number of string bodies the last call ran
Bodies(c) == Cardinality(EventsNamed(c, "body"))

\* the general, pointer and index registers and SP
Regs(c) == <<c.ax, c.cx, c.dx, c.bx, c.sp, c.bp, c.si, c.di>>

LogEntry(kind, ins, c0, c1) ==
    [kind |-> kind, opcode |-> ins.opcode, mnemonic |-> ins.mnemonic,
     rep |-> HasRepPrefix(ins), size |-> ins.size, res |-> ResultOf(c1),
     cs0 |-> c0.cs, ip0 |-> c0.ip, cx0 |-> c0.cx, if0 |-> get_flag(c0, "IF"),
     cs1 |-> c1.cs, ip1 |-> c1.ip, cx1 |-> c1.cx, in_rep |-> c1.in_rep,
     bodies |-> Bodies(c1), rpti |-> Happened(c1, "rep_interrupt"),
     pend |-> c1.pending_interrupt, zf_end |-> Happened(c1, "zf_end"),
     regs0 |-> Regs(c0), regs1 |-> Regs(c1),
     stack0 |-> c0.call_stack, stack1 |-> c1.call_stack, df0 |-> get_flag(c0, "DF"),
     ea |-> IF IsMem(ins.operand1_type) THEN EaOffset(c0, ins.operand1_type)
            ELSE IF IsMem(ins.operand2_type) THEN EaOffset(c0, ins.operand2_type)
            ELSE -1]

CanStep == result # "Panic" /\ ~cpu.halted /\ Len(log) < MaxCalls

\* the host takes over the Cpu the call returned; c0 is the Cpu on entry
Commit(c0, ins, c1) ==
    /\ cpu' = c1
    /\ i' = ins
    /\ pre' = c0
    /\ result' = ResultOf(c1)
    /\ log' = Append(log, LogEntry("exec", ins, c0, c1))
    /\ UNCHANGED overflow_checks

Call(c0, ins, pend) == Commit(c0, ins, execute_instruction(c0, ins, pend))

Here == calc_linear_address(cpu.cs, cpu.ip)

\* the function prog extended at one address
Load(addr, ins) ==
    [a \in (DOMAIN prog) \cup {addr} |-> IF a = addr THEN ins ELSE prog[a]]

\* the instructions the next call can be made with: while the last result is
\* OkayRep the host calls again with the same instruction; otherwise the
\* instruction at CS:IP is decoded, a fresh one if that address was never
\* executed
Candidates(instrs, limit) ==
    IF result = "OkayRep" THEN {i}
    ELSE IF Here \in DOMAIN prog THEN {prog[Here]}
    ELSE IF Cardinality(DOMAIN prog) < limit THEN instrs
    ELSE {}

\* one turn of the host loop: (decode and) execute one instruction
HostStep(instrs, limit) ==
    /\ CanStep
    /\ \E ins \in Candidates(instrs, limit), pend \in BOOLEAN :
          /\ pend \in PendSet(ins)
          /\ prog' = IF result = "OkayRep" THEN prog ELSE Load(Here, ins)
          /\ Call(IF result = "OkayRep" THEN cpu ELSE Decode(cpu, ins), ins, pend)


\* the vector the interrupt controller supplies
IrqVector == 8

\* hardware interrupt delivery by the host: a halted CPU wakes, a REP that
\* went through RPTI is left (the instruction at the prefix starts it again
\* after IRET), then the INTR sequence runs
hw_interrupt(c, n) ==
    [sw_interrupt([c EXCEPT !.trace = <<>>, !.cycles = 0, !.halted = FALSE,
                            !.biu_halted = FALSE, !.in_rep = FALSE], n)
        EXCEPT !.pending_interrupt = FALSE]

HwInterrupt ==
    /\ result \notin {"Panic", "None"}
    /\ Len(log) < MaxCalls
    /\ get_flag(cpu, "IF")
    /\ cpu.pending_interrupt \/ cpu.halted
    /\ cpu' = hw_interrupt(cpu, IrqVector)
    /\ pre' = cpu
    /\ result' = "None"
    /\ log' = Append(log, LogEntry("intr", i, cpu, cpu'))
    /\ UNCHANGED <<i, prog, overflow_checks>>


\* the host loop with its own limit on the number of calls
HostRun(instrs, limit, calls) ==
    /\ result # "Panic" /\ ~cpu.halted /\ Len(log) < calls
    /\ \E ins \in Candidates(instrs, limit), pend \in BOOLEAN :
          /\ pend \in PendSet(ins)
          /\ prog' = IF result = "OkayRep" THEN prog ELSE Load(Here, ins)
          /\ Call(IF result = "OkayRep" THEN cpu ELSE Decode(cpu, ins), ins, pend)

\* single instructions of every family
Step == HostStep(AllInstr, MaxInstr)

Next == Step

Spec == Init /\ [][Next]_vars

\* two-instruction sequences with interrupt delivery
SeqStep == HostStep(SeqInstr, MaxSeq)

NextSeq == SeqStep \/ HwInterrupt

SpecSeq == Init /\ [][NextSeq]_vars

\* single shift and rotate instructions
ShiftStep == HostStep(ShiftInstr, MaxInstr)

NextShift == ShiftStep

SpecShift == InitShift /\ [][NextShift]_vars

\* PUSH/POP sequences
StackStep == HostStep(StackInstr, MaxStack)

NextStack == StackStep

SpecStack == InitStack /\ [][NextStack]_vars


\* runs of opcode 0x00
RailsStep == HostRun(RailsInstr, MaxRails, MaxRails)

NextRails == RailsStep

SpecRails == InitRails /\ [][NextRails]_vars


\* calls and returns
CallStep == HostRun(CallInstr, MaxCallRun, MaxCallRun)

NextCall == CallStep

SpecCall == InitCall /\ [][NextCall]_vars


\* short sequences that carry a deferred RNI from one instruction to the next
PrologueStep == HostRun(PrologueInstr, MaxPrologue, MaxPrologue)

NextPrologue == PrologueStep

SpecPrologue == Init /\ [][NextPrologue]_vars


\* pairs of XCHG, LEA, CMP, TEST and the writing ALU instructions
OperandStep == HostRun(OperandInstr, MaxOperand, MaxOperand)

NextOperand == OperandStep

SpecOperand == InitOperand /\ [][NextOperand]_vars


\* up to MaxLoop calls over a program of up to MaxLoopProg instructions
LoopStep == HostRun(LoopInstr, MaxLoopProg, MaxLoop)

NextLoop == LoopStep

SpecLoop == InitLoop /\ [][NextLoop]_vars


\* single conditional jumps
JccStep == HostRun(JccInstr, MaxJcc, MaxJcc)

NextJcc == JccStep

SpecJcc == InitJcc /\ [][NextJcc]_vars


\* one string instruction, called again while it repeats
StringRun == HostRun(StringOvrInstr, MaxString, MaxStringCalls)

NextString == StringRun

SpecString == InitString /\ [][NextString]_vars


\* single divisions
DivRun == HostRun(DivInstr, MaxDiv, MaxDiv)

NextDiv == DivRun

SpecDiv == InitDiv /\ [][NextDiv]_vars

----------------------------------------------------------------------------
(* Properties *)

\* the last step was a call of execute_instruction that returned
Returned == result \notin {"None", "Panic"}

StringMnemonics == StringMnemonicsRep \cup StringMnemonicsRepz

\* a REP-prefixed string instruction
RepString(ins) == HasRepPrefix(ins) /\ ins.mnemonic \in StringMnemonics

IpAdvanced == cpu.ip = wrapping_add(pre.ip, i.size)

NoBusAccess == EventsNamed(cpu, "read") = {} /\ EventsNamed(cpu, "write") = {}

\* C1: a REP-prefixed string instruction entered with CX = 0 runs no body:
\* no memory access, SI, DI, CX and the flags unchanged, result Okay, in_rep
\* false on return, IP advanced by the instruction size.
C1_RepCxZeroSkipsBody ==
    (result # "None" /\ RepString(i) /\ pre.cx = 0) =>
        /\ result = "Okay"
        /\ Bodies(cpu) = 0
        /\ NoBusAccess
        /\ cpu.mem = pre.mem
        /\ cpu.si = pre.si /\ cpu.di = pre.di /\ cpu.cx = pre.cx
        /\ cpu.flags = pre.flags
        /\ ~cpu.in_rep
        /\ IpAdvanced
        /\ cpu.cs = pre.cs

C1_Witness ==
    /\ result = "Okay" /\ RepString(i) /\ i.mnemonic = "CMPSW" /\ pre.cx = 0
    /\ Bodies(cpu) = 0 /\ IpAdvanced

\* no call up to the k-th had an interrupt pending
NoPendUpTo(k) == \A j \in 1..k : ~log[j].pend

\* the first call starts a REP MOVS/STOS/LODS with CX > 0
RepRunStarts ==
    /\ Len(log) >= 1
    /\ log[1].rep /\ log[1].mnemonic \in StringMnemonicsRep /\ log[1].cx0 > 0

\* C2: a REP MOVS/STOS/LODS started with CX = n > 0 and no interrupt pending
\* runs one body per call; calls 1..n-1 return OkayRep with IP at the
\* instruction, call n returns Okay with CX = 0, in_rep false and IP past
\* the instruction.
C2_RepRunsNBodies ==
    \A k \in 1..Len(log) :
        (RepRunStarts /\ NoPendUpTo(k) /\ k <= log[1].cx0) =>
            /\ log[k].kind = "exec" /\ log[k].opcode = log[1].opcode
            /\ log[k].bodies = 1
            /\ log[k].cx1 = log[1].cx0 - k
            /\ log[k].cs1 = log[1].cs0
            /\ k < log[1].cx0 =>
                  /\ log[k].res = "OkayRep"
                  /\ log[k].ip1 = log[1].ip0
            /\ k = log[1].cx0 =>
                  /\ log[k].res = "Okay"
                  /\ ~log[k].in_rep
                  /\ log[k].ip1 = wrapping_add(log[1].ip0, log[1].size)

C2_Witness ==
    /\ RepRunStarts /\ log[1].mnemonic = "MOVSW" /\ log[1].cx0 = 2
    /\ Len(log) >= 2 /\ NoPendUpTo(2)
    /\ log[1].res = "OkayRep" /\ log[2].res = "Okay" /\ log[2].cx1 = 0

\* an iteration of a REP string instruction that ran with an interrupt
\* pending and left iterations to do
Interrupted(e) ==
    /\ e.kind = "exec" /\ e.rep /\ e.mnemonic \in StringMnemonics
    /\ e.pend /\ e.bodies = 1 /\ e.cx1 > 0 /\ ~e.zf_end

\* C3: an interrupted REP iteration goes through rep_interrupt and returns
\* with CS:IP at the REP prefix; after the interrupt and the handler's IRET
\* the same instruction runs again from the CX it was interrupted with.
C3_InterruptedRepResumes ==
    \A k \in 1..Len(log) :
        Interrupted(log[k]) =>
            /\ log[k].rpti
            /\ log[k].ip1 = log[k].ip0 /\ log[k].cs1 = log[k].cs0
            /\ (/\ k + 3 <= Len(log)
                /\ log[k + 1].kind = "intr"
                /\ log[k + 2].kind = "exec" /\ log[k + 2].mnemonic = "IRET") =>
                  /\ log[k + 3].kind = "exec"
                  /\ log[k + 3].opcode = log[k].opcode /\ log[k + 3].rep
                  /\ log[k + 3].cs0 = log[k].cs0 /\ log[k + 3].ip0 = log[k].ip0
                  /\ log[k + 3].cx0 = log[k].cx1
                  /\ log[k + 3].bodies = 1

C3_Witness ==
    /\ Len(log) >= 4
    /\ Interrupted(log[1]) /\ log[1].rpti
    /\ log[2].kind = "intr"
    /\ log[3].mnemonic = "IRET"
    /\ log[4].rep /\ log[4].cx0 = log[1].cx1 /\ log[4].bodies = 1

\* C4: on return in_rep is true only after a REP-prefixed string instruction
\* whose repetition goes on; after every other instruction, a REP-prefixed
\* MUL/IMUL/DIV/IDIV included, it is false.
C4_InRepOnlyInRepString ==
    (Returned /\ cpu.in_rep) => (RepString(i) /\ result = "OkayRep")

\* DIV/IDIV whose divisor is 0 or whose quotient does not fit
DivFails ==
    /\ i.opcode \in {246, 247} /\ i.mnemonic \in {"DIV", "IDIV"}
    /\ ~DivOutcome(Dividend(pre, i.opcode = 247),
                   OperandValue(pre, i.operand1_type, i.segment_override, i.opcode = 247),
                   i.mnemonic = "IDIV", HasRepPrefix(i), i.opcode = 247).ok

AamZero == i.opcode = 212 /\ i.operand1_type.v = 0

\* C5: a failing DIV/IDIV, or AAM with base 0, returns
\* ExceptionError(DivideError) whatever prefixes the instruction has.
C5_DivideErrorReturned ==
    (result # "None" /\ (DivFails \/ AamZero)) => result = "DivideError"

\* C6: a REP/REPNE-prefixed MUL/IMUL/DIV/IDIV returns Okay or
\* ExceptionError from its single call, with IP past the instruction; the
\* result is never OkayRep.
C6_RepMulDivOnce ==
    (result # "None" /\ HasRepPrefix(i) /\ i.mnemonic \in MulDivMnemonics) =>
        /\ result \in {"Okay", "DivideError"}
        /\ IpAdvanced

ConditionalTransfer == {"Jcc", "LOOPNE", "LOOPE", "LOOP", "JCXZ", "INTO"}
UnconditionalTransfer ==
    {"JMP", "JMPF", "CALL", "CALLF", "RETN", "RETF", "INT", "INT3", "IRET"}

\* the instruction just executed changed the control flow
Transfers ==
    \/ i.mnemonic \in UnconditionalTransfer
    \/ i.mnemonic \in ConditionalTransfer /\ cpu.jump

\* the destination of the instruction is the CS register
WritesCs == i.mnemonic \in {"POP", "MOV"} /\ i.operand1_type = Register16("CS")

\* C7 as stated: outside a REP, an instruction that does not transfer
\* control leaves IP = (IP + size) mod 2^16 and CS unchanged.
C7_Original ==
    (Returned /\ ~cpu.in_rep /\ ~Transfers) => (IpAdvanced /\ cpu.cs = pre.cs)

\* C7: outside a REP, an instruction that does not transfer control leaves
\* IP = (IP + size) mod 2^16, and leaves CS unchanged unless CS is its
\* destination (POP CS, MOV CS,r/m16).
C7_IpAdvancesBySize ==
    (Returned /\ ~cpu.in_rep /\ ~Transfers) =>
        /\ IpAdvanced
        /\ ~WritesCs => cpu.cs = pre.cs

C7_Witness ==
    /\ Returned /\ ~cpu.in_rep /\ ~Transfers
    /\ i.mnemonic = "Jcc" /\ pre.ip = 65534 /\ cpu.ip = 0

\* the queue holds the bytes at CS:IP onwards
QueueAtCsIp ==
    \A k \in 1..Len(cpu.queue) :
        cpu.queue[k] = (calc_linear_address(cpu.cs, cpu.ip) + k - 1) % W20

C9_FlushAtTarget ==
    (Returned /\ Transfers) =>
        \A k \in EventsNamed(cpu, "flush") :
            cpu.trace[k].a = cpu.cs /\ cpu.trace[k].b = cpu.ip

\* C10: HLT sets halted and advances IP; the result is Halt exactly when the
\* CPU is halted with IF = 0 at the end of the instruction; CLI then HLT
\* returns Okay then Halt; HLT with IF = 1 returns Okay.
C10_HaltResult ==
    /\ Returned => (result = "Halt" <=> (cpu.halted /\ ~get_flag(cpu, "IF")))
    /\ (Returned /\ i.mnemonic = "HLT") =>
          /\ cpu.halted
          /\ IpAdvanced /\ cpu.cs = pre.cs
          /\ get_flag(pre, "IF") => result = "Okay"
    /\ \A k \in 1..(Len(log) - 1) :
          (/\ log[k].kind = "exec" /\ log[k].mnemonic = "CLI"
           /\ log[k + 1].kind = "exec" /\ log[k + 1].mnemonic = "HLT") =>
              (log[k].res = "Okay" /\ log[k + 1].res = "Halt")

C10_Witness ==
    /\ Len(log) = 2
    /\ log[1].mnemonic = "CLI" /\ log[1].if0 /\ log[1].res = "Okay"
    /\ log[2].mnemonic = "HLT" /\ log[2].res = "Halt"
    /\ cpu.halted /\ IpAdvanced

IsPush(e) == e.ev = "push"

\* the words the last call pushed, in order
Pushes == SelectSeq(cpu.trace, IsPush)

\* the word at SS:SP+d after the last call
StackWord(d) == ReadU16(cpu, cpu.ss, wrapping_add(cpu.sp, d))

\* the offset of the instruction that follows the one just executed
NextOffset == wrapping_add(pre.ip, i.size)

\* CALL far: 0x9A, and 0xFF /3 with a memory operand
IsFarCall ==
    \/ i.opcode = 154
    \/ i.opcode = 255 /\ i.mnemonic = "CALLF" /\ IsMem(i.operand1_type)

\* the far target: in the instruction (0x9A, 0xEA) or in memory (0xFF /3)
FarTargetCs ==
    IF i.opcode \in {154, 234} THEN i.operand1_type.s
    ELSE FarPtrSegment(pre, i.operand1_type, i.segment_override)
FarTargetIp ==
    IF i.opcode \in {154, 234} THEN i.operand1_type.v
    ELSE FarPtrOffset(pre, i.operand1_type, i.segment_override)

\* C11: CALL far pushes the old CS, then the offset of the next instruction;
\* afterwards SP is 4 lower, the word at SS:SP is the return offset, the word
\* at SS:SP+2 the old CS, and CS:IP is the far target.  JMP far (0xEA) loads
\* its target and leaves SP and the stack alone.
C11_FarCallPushesCsThenIp ==
    /\ (Returned /\ IsFarCall) =>
          /\ Len(Pushes) = 2
          /\ Pushes[1].b = pre.cs /\ Pushes[1].a = wrapping_sub(pre.sp, 2)
          /\ Pushes[2].b = NextOffset /\ Pushes[2].a = wrapping_sub(pre.sp, 4)
          /\ cpu.sp = wrapping_sub(pre.sp, 4) /\ cpu.ss = pre.ss
          /\ StackWord(0) = NextOffset
          /\ StackWord(2) = pre.cs
          /\ cpu.cs = FarTargetCs /\ cpu.ip = FarTargetIp
          /\ result = "OkayJump"
    /\ (Returned /\ i.opcode = 234) =>
          /\ cpu.cs = FarTargetCs /\ cpu.ip = FarTargetIp
          /\ cpu.sp = pre.sp /\ cpu.ss = pre.ss
          /\ cpu.mem = pre.mem /\ EventsNamed(cpu, "write") = {}
          /\ result = "OkayJump"

C11_Witness ==
    /\ Returned /\ i.opcode = 255 /\ IsFarCall
    /\ pre.ip = 65534 /\ StackWord(0) = 0 /\ StackWord(2) = pre.cs
    /\ cpu.cs = 24576 /\ cpu.ip = 22136

\* INT 3, INT imm8, or INTO with OF set
IsInt == i.opcode \in {204, 205} \/ (i.opcode = 206 /\ get_flag(pre, "OF"))

\* the interrupt number of the instruction just executed
IntNumber == IF i.opcode = 204 THEN 3 ELSE IF i.opcode = 205 THEN i.operand1_type.v ELSE 4

\* C12: INT n, INT 3 and INTO with OF = 1 push the flags, CS and the offset
\* of the next instruction, clear TF and IF and load CS:IP from the vector at
\* linear 4n; the result is OkayJump and IP is exactly the vector's offset.
\* INTO with OF = 0 pushes nothing and advances IP by its size.
C12_SoftwareInterrupt ==
    /\ (Returned /\ IsInt) =>
          /\ Len(Pushes) = 3
          /\ Pushes[1].b = FlagsWord(pre)
          /\ Pushes[2].b = pre.cs
          /\ Pushes[3].b = NextOffset
          /\ cpu.sp = wrapping_sub(pre.sp, 6) /\ cpu.ss = pre.ss
          /\ StackWord(0) = NextOffset
          /\ StackWord(2) = pre.cs
          /\ StackWord(4) = FlagsWord(pre)
          /\ cpu.flags = pre.flags \ {"TF", "IF"}
          /\ cpu.ip = ReadU16(pre, 0, 4 * IntNumber)
          /\ cpu.cs = ReadU16(pre, 0, 4 * IntNumber + 2)
          /\ result = "OkayJump"
    /\ (Returned /\ i.opcode = 206 /\ ~get_flag(pre, "OF")) =>
          /\ Pushes = <<>>
          /\ cpu.sp = pre.sp /\ cpu.mem = pre.mem /\ cpu.flags = pre.flags
          /\ IpAdvanced /\ cpu.cs = pre.cs
          /\ result = "Okay"

C12_Witness ==
    /\ Returned /\ i.opcode = 205 /\ get_flag(pre, "IF") /\ ~get_flag(cpu, "IF")
    /\ pre.ip = 65534 /\ StackWord(0) = 0
    /\ cpu.cs = 20480 /\ cpu.ip = 512

\* PUSH r16 in either encoding: 0x50-0x57, or 0xFF /6 with a register operand
IsPushReg16 ==
    /\ i.mnemonic = "PUSH" /\ i.opcode \in (80..87) \cup {255}
    /\ i.operand1_type.t = "Register16"

\* C13: PUSH SP (0x54, and 0xFF /6 on SP) stores SP_before - 2 mod 2^16 at
\* the new top of stack; PUSH of any other 16-bit register stores the value
\* the register had before the PUSH.
C13_PushSpStoresNewSp ==
    (Returned /\ IsPushReg16) =>
        /\ cpu.sp = wrapping_sub(pre.sp, 2)
        /\ Len(Pushes) = 1
        /\ StackWord(0) = IF i.operand1_type.r = "SP" THEN wrapping_sub(pre.sp, 2)
                          ELSE get_register16(pre, i.operand1_type.r)

C13_Witness ==
    /\ Returned /\ IsPushReg16 /\ i.opcode = 255 /\ i.operand1_type.r = "SP"
    /\ pre.sp = 1 /\ cpu.sp = 65535 /\ StackWord(0) = 65535

\* call k is PUSH r16 (0x50+r) and call k+1 is POP r16 (0x58+r) of the same r
PushThenPop(k) ==
    /\ log[k].kind = "exec" /\ log[k].opcode \in 80..87
    /\ log[k + 1].kind = "exec" /\ log[k + 1].opcode = log[k].opcode + 8

IsIoRead(e) == e.ev = "io_read"
IsIoWrite(e) == e.ev = "io_write"

\* the I/O bus cycles of the last call, in order
IoReads == SelectSeq(cpu.trace, IsIoRead)
IoWrites == SelectSeq(cpu.trace, IsIoWrite)

\* the port of the I/O instruction just executed: imm8, or DX
IoPort ==
    IF i.opcode \in {228, 229} THEN i.operand2_type.v
    ELSE IF i.opcode \in {230, 231} THEN i.operand1_type.v
    ELSE pre.dx

\* OUT imm8,AX and OUT DX,AX write AL to port P, then AH to port P+1
WordOutTwoCycles ==
    (Returned /\ i.opcode \in {231, 239}) =>
        /\ Len(IoWrites) = 2
        /\ IoWrites[1].a = IoPort /\ IoWrites[1].b = LowByte(pre.ax)
        /\ IoWrites[2].a = wrapping_add(IoPort, 1) /\ IoWrites[2].b = HighByte(pre.ax)

\* IN AX,imm8 and IN AX,DX read port P into AL, then port P+1 into AH
WordInTwoCycles ==
    (Returned /\ i.opcode \in {229, 237}) =>
        /\ Len(IoReads) = 2
        /\ IoReads[1].a = IoPort /\ IoReads[2].a = wrapping_add(IoPort, 1)
        /\ LowByte(cpu.ax) = IoRead(pre, IoPort)
        /\ HighByte(cpu.ax) = IoRead(pre, wrapping_add(IoPort, 1))

\* C15: the 16-bit I/O instructions transfer two bytes on consecutive ports
\* as two 8-bit bus cycles: IN AX reads port P into AL and port P+1 into AH,
\* OUT AX writes AL to port P and AH to port P+1.
C15_WordIoTwoPorts == WordInTwoCycles /\ WordOutTwoCycles

\* shift and rotate by CL
ShiftByCl == i.opcode \in {210, 211}

ShiftWide == i.opcode = 211

\* the operand of the last instruction before and after the call
OperandBefore == OperandValue(pre, i.operand1_type, i.segment_override, ShiftWide)
OperandAfter == OperandValue(cpu, i.operand1_type, i.segment_override, ShiftWide)

\* the iterations the 4-cycle loop of the last call ran
ShiftIterations == { cpu.trace[k].a : k \in EventsNamed(cpu, "shift_loop") }

\* cycles the arm issued itself: all cycles of the call but those of the
\* prologue and of the bus cycles of the operand read and write
ArmCycles ==
    cpu.cycles - BeforeDispatch(EnterCall(pre, FALSE), i).cycles
      - 4 * (Cardinality(EventsNamed(cpu, "read")) + Cardinality(EventsNamed(cpu, "write")))

ShiftBase == IF IsMem(i.operand1_type) THEN 7 ELSE 6

\* v shifted left, right by the full count n
FullShl(v, n, wide) == IF n >= Bits(wide) THEN 0 ELSE (v * (2^n)) % Modulus(wide)
FullShr(v, n, wide) == IF n >= Bits(wide) THEN 0 ELSE v \div (2^n)

\* C16: a shift or rotate by CL runs exactly CL iterations of four cycles on
\* top of a base of 6 cycles (7 for a memory operand), for every CL up to
\* 255, and SHL/SHR move the value by the full CL
C16_ShiftByClUnmasked ==
    (Returned /\ ShiftByCl) =>
        /\ ShiftIterations = {LowByte(pre.cx)}
        /\ ArmCycles = ShiftBase + 4 * LowByte(pre.cx)
        /\ i.mnemonic = "SHL" => OperandAfter = FullShl(OperandBefore, LowByte(pre.cx), ShiftWide)
        /\ i.mnemonic = "SHR" => OperandAfter = FullShr(OperandBefore, LowByte(pre.cx), ShiftWide)

\* SHL AX, CL with AX = 1 and CL = 255 returned: AX = 0 after 6 + 4*255 cycles
C16_Witness ==
    /\ Returned
    /\ i.opcode = 211 /\ i.mnemonic = "SHL" /\ i.operand1_type = Register16("AX")
    /\ pre.ax = 1 /\ LowByte(pre.cx) = 255
    /\ cpu.ax = 0
    /\ ArmCycles = 1026

\* C17: a shift or rotate by CL = 0 changes no flag and not the operand, and
\* takes the base cycles with no 4-cycle iteration
C17_ShiftByZero ==
    (Returned /\ ShiftByCl /\ LowByte(pre.cx) = 0) =>
        /\ cpu.flags = pre.flags
        /\ OperandAfter = OperandBefore
        /\ ShiftIterations = {0}
        /\ ArmCycles = ShiftBase
        /\ ArmCycles > 0

\* RCL byte [BX], CL with CL = 0 and CF set returned: flags and byte kept,
\* seven cycles issued
C17_Witness ==
    /\ Returned
    /\ i.opcode = 210 /\ i.mnemonic = "RCL" /\ IsMem(i.operand1_type)
    /\ LowByte(pre.cx) = 0
    /\ get_flag(pre, "CF")
    /\ cpu.flags = pre.flags
    /\ OperandAfter = OperandBefore
    /\ ArmCycles = 7

\* a REP/REPNE prefix the classification calls invalid
InvalidRep(ins) ==
    HasRepPrefix(ins)
      /\ ins.mnemonic \notin (StringMnemonicsRep \cup StringMnemonicsRepz \cup MulDivMnemonics)

\* the last instruction without its prefix byte, executed from the same Cpu
\* one byte further on
Unprefixed(ins) == [ins EXCEPT !.prefixes = {}, !.size = @ - 1]
UnprefixedRun ==
    execute_instruction([pre EXCEPT !.ip = wrapping_add(@, 1)], Unprefixed(i),
                        cpu.pending_interrupt)

\* registers, flags, memory, ports and the ExecutionResult
Visible(c) ==
    [regs |-> Regs(c), cs |-> c.cs, ds |-> c.ds, es |-> c.es, ss |-> c.ss, ip |-> c.ip,
     flags |-> c.flags, mem |-> c.mem, io |-> c.io, halted |-> c.halted,
     in_rep |-> c.in_rep, res |-> ResultOf(c)]

\* C18: a REP/REPNE prefix on an instruction that is neither a string
\* operation nor MUL/IMUL/DIV/IDIV changes nothing: in_rep is not set, and
\* registers, flags, memory and result are those of the unprefixed
\* instruction, IP standing after the whole prefixed instruction
C18_InvalidRepIgnored ==
    (Returned /\ InvalidRep(i)) =>
        /\ cpu.in_rep = pre.in_rep
        /\ Visible(cpu) = Visible(UnprefixedRun)
        /\ (result \in {"Okay", "Halt"} /\ ~pre.in_rep) => IpAdvanced

\* REP ADD AX, 0FFFFh returned Okay with AX changed, IP three bytes plus the
\* prefix further on and the REP state not entered
C18_Witness ==
    /\ Returned
    /\ InvalidRep(i) /\ i.mnemonic = "ADD"
    /\ result = "Okay"
    /\ ~cpu.in_rep
    /\ cpu.ax # pre.ax
    /\ cpu.ip = wrapping_add(pre.ip, 4)
    /\ Visible(cpu) = Visible(UnprefixedRun)

\* the last call ended in unreachable!("Invalid opcode!")
InvalidOpcodePanic == cpu.unhandled /\ result = "Panic"

IsCall == i.mnemonic \in {"CALL", "CALLF"}
IsCallOrInt == IsCall \/ IsInt

\* CS_before : IP_before + size
StepOverExpected == <<pre.cs, wrapping_add(pre.ip, i.size)>>

\* the CALL forms that record the step-over target: CALL rel16, CALL FAR
\* ptr16:16 and the memory forms of Group 5 CALL and CALLF
CallRecordsTarget ==
    \/ i.opcode \in {232, 154}
    \/ i.opcode = 255 /\ IsCall /\ IsMem(i.operand1_type)

\* C20: after a call that returned, step_over_target is CS_before :
\* IP_before + size exactly when the instruction was a CALL or a software
\* interrupt, and empty after every other instruction
C20_StepOverTarget ==
    Returned =>
        cpu.step_over_target = IF IsCallOrInt THEN StepOverExpected ELSE <<>>

\* what the arms do: the target is recorded by the software interrupts and by
\* the CALL forms of CallRecordsTarget only
StepOverAsCoded ==
    Returned =>
        cpu.step_over_target =
            IF IsInt \/ (IsCall /\ CallRecordsTarget) THEN StepOverExpected ELSE <<>>

\* CALL DX (FF /2, register form) returned and left no step-over target
StepOverMissed ==
    /\ Returned
    /\ i.opcode = 255 /\ i.mnemonic = "CALL" /\ i.operand1_type = Register16("DX")
    /\ cpu.step_over_target = <<>>

\* the number of opcode-0x00 instructions executed in a row up to now
Run0 == Cardinality({ k \in 1..Len(log) : \A j \in k..Len(log) : log[j].opcode = 0 })

\* C21: with off-rails detection the CPU halts with IF cleared on the sixth
\* opcode 0x00 in a row and not before, any other opcode starts the count
\* again, and without detection no run of 0x00 halts or clears IF
C21_OffRails ==
    Returned =>
        /\ cpu.opcode0_counter = Run0
        /\ cpu.off_rails_detection =>
              /\ cpu.halted <=> Run0 > OffRailsThreshold
              /\ cpu.halted => (result = "Halt" /\ ~get_flag(cpu, "IF") /\ Run0 = 6)
              /\ ~cpu.halted => get_flag(cpu, "IF")
        /\ ~cpu.off_rails_detection => (~cpu.halted /\ get_flag(cpu, "IF") /\ result = "Okay")

\* a NOP, then six ADDs of opcode 0x00: the sixth halted the CPU
C21_Witness ==
    /\ Returned
    /\ cpu.off_rails_detection
    /\ Len(log) = 7 /\ log[1].opcode = 144
    /\ Run0 = 6
    /\ cpu.halted /\ result = "Halt" /\ ~get_flag(cpu, "IF")

\* eight opcodes 0x00 in a row without detection: still running
RailsUndetected ==
    /\ Returned
    /\ ~cpu.off_rails_detection
    /\ Run0 = 8
    /\ ~cpu.halted /\ get_flag(cpu, "IF")

\* linear address call number k started at, and the one it returns to
StartAddr(k) == calc_linear_address(log[k].cs0, log[k].ip0)
ReturnAddr(k) == calc_linear_address(log[k].cs0, wrapping_add(log[k].ip0, log[k].size))

IsCallEntry(k) == log[k].mnemonic \in {"CALL", "CALLF"} /\ log[k].res = "OkayJump"
IsRetEntry(k) == log[k].mnemonic \in {"RETN", "RETF"}

\* call k started at the return address of an entry of the shadow stack
AtMarker(k) ==
    StartAddr(k) \in { EntryAddr(log[k].stack0[m]) : m \in 1..Len(log[k].stack0) }

\* call j is the first after the CALL of call k that starts at the CALL's
\* return address, the call before it was a RET, the CALL itself did not start
\* at a marker and the instruction at the return address pushes no entry
ReturnsTo(k, j) ==
    /\ IsCallEntry(k)
    /\ ~AtMarker(k)
    /\ j > k + 1
    /\ log[j].mnemonic \notin {"CALL", "CALLF"}
    /\ StartAddr(j) = ReturnAddr(k)
    /\ \A m \in (k + 1)..(j - 1) : StartAddr(m) # ReturnAddr(k)
    /\ IsRetEntry(j - 1)

\* the shadow stack entry the CALL of call k pushed
Pushed(k) == log[k].stack1[Len(log[k].stack1)]

\* the unwind happens in the call that starts at the marker and removes the
\* entry of the CALL; after the RET before it that entry is still there
UnwindAtMarker(k, j) ==
    /\ Len(log[k].stack1) = Len(log[k].stack0) + 1
    /\ EntryAddr(Pushed(k)) = ReturnAddr(k)
    /\ Len(log[j - 1].stack1) >= Len(log[k].stack1)
    /\ SubSeq(log[j - 1].stack1, 1, Len(log[k].stack1)) = log[k].stack1
    /\ Len(log[j].stack0) > Len(log[j].stack1)
    /\ log[j].stack0[Len(log[j].stack1) + 1] = Pushed(k)

Pos(name) == CHOOSE k \in EventsNamed(cpu, name) : TRUE

\* the last call ran one iteration of a REP-prefixed string instruction
RepIteration(mns) ==
    Returned /\ RepString(i) /\ i.mnemonic \in mns /\ Happened(cpu, "body")

\* body, then CX - 1, then the pending-interrupt test with CX already
\* decremented, then the CX = 0 test only if no interrupt is pending
BodyDecIntrCx ==
    /\ Happened(cpu, "dec_cx") /\ Happened(cpu, "intr_test")
    /\ Pos("body") < Pos("dec_cx")
    /\ Pos("dec_cx") < Pos("intr_test")
    /\ cpu.trace[Pos("intr_test")].a = wrapping_sub(cpu.trace[Pos("body")].a, 1)
    /\ IF cpu.pending_interrupt THEN ~Happened(cpu, "cx_test")
       ELSE Happened(cpu, "cx_test") /\ Pos("intr_test") < Pos("cx_test")

\* C23: every iteration of REP MOVS, STOS and LODS goes body, decrement CX,
\* pending-interrupt test, and only without a pending interrupt the CX = 0
\* test
C23_RepIterationOrder == RepIteration(StringMnemonicsRep) => BodyDecIntrCx

\* the same for MOVS and LODS alone
RepOrderMovsLods ==
    RepIteration({"MOVSB", "MOVSW", "LODSB", "LODSW"}) => BodyDecIntrCx

\* REP STOS tested the interrupt line before it decremented CX
StosTestsBeforeDec ==
    /\ RepIteration({"STOSB", "STOSW"})
    /\ Pos("intr_test") < Pos("dec_cx")
    /\ cpu.trace[Pos("intr_test")].a = cpu.trace[Pos("body")].a

\* the compare of the last call ended the repeat by its ZF
ZfEnds ==
    \/ OPCODE_PREFIX_REP1 \in i.prefixes /\ get_flag(cpu, "ZF")
    \/ OPCODE_PREFIX_REP1 \notin i.prefixes /\ ~get_flag(cpu, "ZF")

\* entry j of the log ran the instruction at the address of the last call
SameAddr(j) == log[j].cs0 = log[Len(log)].cs0 /\ log[j].ip0 = log[Len(log)].ip0

\* the first of the consecutive calls of the instruction the last call ran
RunStart ==
    CHOOSE k \in 1..Len(log) :
        /\ \A j \in k..Len(log) : SameAddr(j)
        /\ k > 1 => ~SameAddr(k - 1)

\* calls of that run that ran a string body
BodyCalls == { k \in RunStart..Len(log) : log[k].bodies > 0 }

\* C24: an iteration of REP CMPS/SCAS decrements CX exactly once after the
\* compare, also when it ends the repeat; REPE ends on ZF = 0, REPNE on
\* ZF = 1, otherwise the repeat goes on until CX = 0, so that no more
\* iterations run than CX held at the start
C24_RepCompare ==
    /\ RepIteration(StringMnemonicsRepz) =>
          /\ Cardinality(EventsNamed(cpu, "dec_cx")) = 1
          /\ Pos("body") < Pos("dec_cx")
          /\ cpu.cx = wrapping_sub(cpu.trace[Pos("body")].a, 1)
          /\ Happened(cpu, "zf_end") <=> ZfEnds
          /\ ZfEnds => ~cpu.in_rep
          /\ ~ZfEnds => (cpu.in_rep <=> cpu.cx # 0)
    /\ (Returned /\ RepString(i) /\ i.mnemonic \in StringMnemonicsRepz) =>
          /\ Cardinality(BodyCalls) <= log[RunStart].cx0
          /\ \A k \in 1..Len(log) : log[k].bodies <= 1

\* REPE SCASB with CX = 2 on a byte unequal to AL: one compare, CX = 1,
\* repeat over
C24_Witness ==
    /\ RepIteration({"SCASB"})
    /\ OPCODE_PREFIX_REP2 \in i.prefixes
    /\ Len(log) = 1 /\ log[1].cx0 = 2
    /\ ~get_flag(cpu, "ZF")
    /\ Happened(cpu, "zf_end")
    /\ cpu.cx = 1
    /\ ~cpu.in_rep

\* REPNE SCASB ran to CX = 0 without a match
RepneRunsOut ==
    /\ RepIteration({"SCASB"})
    /\ OPCODE_PREFIX_REP1 \in i.prefixes
    /\ Len(log) = 2 /\ log[1].cx0 = 2
    /\ ~get_flag(cpu, "ZF")
    /\ cpu.cx = 0 /\ ~cpu.in_rep

\* the last call took both exits of the REP iteration
BothExits == Happened(cpu, "rep_interrupt") /\ Happened(cpu, "rep_end")

\* C25: a call of a REP-prefixed string instruction that leaves through
\* rep_interrupt does not also take the CX = 0 end of the repeat
C25_RepExitsExclusive == (Returned /\ RepString(i)) => ~BothExits

\* the same for MOVS and LODS alone
RepExitsExclusiveMovsLods ==
    (Returned /\ RepString(i) /\ i.mnemonic \in {"MOVSB", "MOVSW", "LODSB", "LODSW"})
        => ~BothExits

\* REP STOSB with CX = 1 and an interrupt pending: RPTI was run, the repeat
\* was ended as well and IP stands after the instruction
StosBothExits ==
    /\ Returned /\ RepString(i) /\ i.mnemonic = "STOSB"
    /\ Len(log) = 1 /\ log[1].cx0 = 1
    /\ cpu.pending_interrupt
    /\ BothExits
    /\ cpu.cx = 0 /\ ~cpu.in_rep
    /\ cpu.ip = wrapping_add(pre.ip, i.size)

\* how often the last call emitted the event
Count(name) == Cardinality(EventsNamed(cpu, name))

\* cycles the prologue of the last call issued
PrologueCycles == Prologue(EnterCall(pre, FALSE), i).cycles

\* C26: the prologue spends one cycle on a deferred RNI and clears nx, or
\* else one idle cycle after a First queue operation, never both; the group
\* delay adds one more; so it issues 0, 1 or 2 cycles and nx is false when
\* dispatch begins
C26_Prologue ==
    Returned =>
        /\ Count("rni") = (IF pre.nx THEN 1 ELSE 0)
        /\ Count("first_wait") = (IF ~pre.nx /\ pre.last_queue_op = "First" THEN 1 ELSE 0)
        /\ Count("rni") + Count("first_wait") <= 1
        /\ Count("group_delay") = (IF i.group_delay THEN 1 ELSE 0)
        /\ PrologueCycles = Count("rni") + Count("first_wait") + Count("group_delay")
        /\ PrologueCycles \in 0..2
        /\ \A k \in EventsNamed(cpu, "group_delay") :
              cpu.trace[k].cyc = Count("rni") + Count("first_wait")
        /\ ~BeforeDispatch(EnterCall(pre, FALSE), i).nx

\* INC CX left its RNI to the one-byte NOP after it: one prologue cycle, for
\* the RNI, and no idle cycle
C26_Witness ==
    /\ Returned
    /\ Len(log) = 2 /\ log[1].mnemonic = "INC" /\ log[2].mnemonic = "NOP"
    /\ pre.nx /\ pre.last_queue_op = "First"
    /\ Count("rni") = 1 /\ Count("first_wait") = 0
    /\ PrologueCycles = 1

\* a deferred RNI and the group delay: two prologue cycles
PrologueTwoCycles ==
    /\ Returned
    /\ pre.nx /\ i.group_delay
    /\ PrologueCycles = 2

\* the value, in Cpu c, of the operand that Cpu p locates: a memory operand's
\* address is taken from p's registers, its content from c's memory
OperandAt(c, p, op, ovr, wide) ==
    IF IsMem(op)
    THEN IF wide
         THEN ReadU16(c, SegmentValue(p, EaSegment(op, ovr)), EaOffset(p, op))
         ELSE MemRead(c, calc_linear_address(SegmentValue(p, EaSegment(op, ovr)),
                                             EaOffset(p, op)))
    ELSE OperandValue(c, op, ovr, wide)

IsXchg == Returned /\ i.opcode \in {134, 135}

\* C27: XCHG r, r/m (0x86, 0x87) leaves in operand 1 the value operand 2 had
\* and in operand 2 the value operand 1 had, for every operand form; a memory
\* operand 2 is written at the address its registers gave before the
\* exchange, so XCHG BX,[BX] stores the old BX at the old DS:BX
C27_XchgSwaps ==
    IsXchg =>
        LET wide == i.opcode = 135
            ovr  == i.segment_override
        IN  /\ OperandValue(cpu, i.operand1_type, ovr, wide)
                 = OperandValue(pre, i.operand2_type, ovr, wide)
            /\ OperandAt(cpu, pre, i.operand2_type, ovr, wide)
                 = OperandValue(pre, i.operand1_type, ovr, wide)

\* XCHG BX,[BX] has run: BX changed, so the operand's address did too, and
\* the old BX stands at the old address
C27_Witness ==
    /\ IsXchg
    /\ i.operand1_type = Register16("BX")
    /\ i.operand2_type = MemBx
    /\ cpu.bx # pre.bx
    /\ EaOffset(cpu, MemBx) # EaOffset(pre, MemBx)
    /\ ReadU16(cpu, pre.ds, pre.bx) = pre.bx

IsLea == Returned /\ i.opcode = 141

\* the earlier instructions of the run that computed an effective address
EarlierEa == {k \in 1..(Len(log) - 1) : log[k].ea # -1}

MostRecentEa == CHOOSE k \in EarlierEa : \A j \in EarlierEa : j <= k

LeaDest(c) == get_register16(c, i.operand1_type.r)

\* C28: LEA with a register as operand 2 writes the cached last_ea, the
\* offset computed by the most recent earlier instruction that computed one;
\* LEA with a memory operand writes that operand's offset; the value is the
\* same under every segment override, and no memory is read or changed
C28_Lea ==
    IsLea =>
        /\ IsMem(i.operand2_type) => LeaDest(cpu) = EaOffset(pre, i.operand2_type)
        /\ ~IsMem(i.operand2_type) =>
              /\ LeaDest(cpu) = pre.last_ea
              /\ EarlierEa # {} => LeaDest(cpu) = log[MostRecentEa].ea
        /\ \A o \in {"None", "ES", "CS", "SS", "DS"} :
              LeaDest(execute_instruction(pre, [i EXCEPT !.segment_override = o],
                                          cpu.pending_interrupt)) = LeaDest(cpu)
        /\ cpu.mem = pre.mem
        /\ ~Happened(cpu, "read")

\* LEA AX,CX has run after an instruction that addressed [BX+SI]: AX holds
\* that instruction's offset, not the value of CX
C28_Witness ==
    /\ IsLea
    /\ ~IsMem(i.operand2_type)
    /\ EarlierEa # {}
    /\ log[MostRecentEa].ea # 0
    /\ LeaDest(cpu) = log[MostRecentEa].ea
    /\ LeaDest(cpu) # OperandValue16(pre, i.operand2_type, "None")

\* LEA DI,ES:[BX+SI] has run: DI is the offset BX+SI, no segment in it
LeaOverride ==
    /\ IsLea
    /\ i.segment_override = "ES"
    /\ LeaDest(cpu) = wrapping_add(pre.bx, pre.si)

\* the encodings of CMP and TEST
IsCmpTest ==
    /\ Returned
    /\ \/ i.mnemonic = "CMP" /\ i.opcode \in (56..61) \cup (128..131)
       \/ i.mnemonic = "TEST" /\ i.opcode \in {132, 133, 168, 169, 246, 247}

\* the other arithmetic and logic mnemonics under 0x00-0x35 and Group 1
IsAluWrite ==
    /\ Returned
    /\ i.mnemonic \in {"ADD", "OR", "ADC", "SBB", "AND", "SUB", "XOR"}
    /\ i.opcode \in (0..53) \cup (128..131)

AluWide == IF i.opcode >= 128 THEN i.opcode \in {129, 131} ELSE i.opcode % 2 = 1

\* the ALU result of the instruction on the operand values at entry
AluExpected ==
    MathResult(pre, i.mnemonic,
               OperandValue(pre, i.operand1_type, i.segment_override, AluWide),
               IF i.opcode = 131
               THEN SignExtend8(OperandValue8(pre, i.operand2_type, i.segment_override))
               ELSE OperandValue(pre, i.operand2_type, i.segment_override, AluWide),
               AluWide)

\* C29: CMP (0x38-0x3D, Group 1 /7) and TEST (0x84, 0x85, 0xA8, 0xA9, Group 3)
\* change only flags and IP: the general and segment registers and all of
\* memory are as before; ADD, OR, ADC, SBB, AND, SUB and XOR under 0x00-0x35
\* and under Group 1 leave the ALU result in operand 1
C29_CmpTestFlagOnly ==
    /\ IsCmpTest =>
          /\ Regs(cpu) = Regs(pre)
          /\ <<cpu.cs, cpu.ds, cpu.es, cpu.ss>> = <<pre.cs, pre.ds, pre.es, pre.ss>>
          /\ cpu.mem = pre.mem
    /\ IsAluWrite =>
          OperandAt(cpu, pre, i.operand1_type, i.segment_override, AluWide) = AluExpected

\* a Group 1 CMP on memory whose difference is not the operand: the flags
\* changed and the operand did not
C29_Witness ==
    /\ IsCmpTest
    /\ i.opcode \in 128..131
    /\ IsMem(i.operand1_type)
    /\ AluExpected # OperandValue(pre, i.operand1_type, i.segment_override, AluWide)
    /\ cpu.flags # pre.flags
    /\ OperandAt(cpu, pre, i.operand1_type, i.segment_override, AluWide)
         = OperandValue(pre, i.operand1_type, i.segment_override, AluWide)

\* a Group 1 SUB on memory has stored its difference
Group1SubWrites ==
    /\ IsAluWrite
    /\ i.opcode \in 128..131
    /\ i.mnemonic = "SUB"
    /\ IsMem(i.operand1_type)
    /\ cpu.mem # pre.mem

\* TEST AL,imm8 or the Group 3 TEST has run and changed a flag
TestFlagOnly ==
    /\ IsCmpTest
    /\ i.mnemonic = "TEST"
    /\ i.opcode \in {168, 246}
    /\ cpu.flags # pre.flags

IsLoopFamily == Returned /\ i.opcode \in 224..227

\* CX as LOOPNE, LOOPE and LOOP leave it
LoopCx == (pre.cx + W16 - 1) % W16

\* the condition on which each of the four jumps
LoopShouldJump ==
    CASE i.opcode = 226 -> LoopCx # 0
      [] i.opcode = 225 -> LoopCx # 0 /\ get_flag(pre, "ZF")
      [] i.opcode = 224 -> LoopCx # 0 /\ ~get_flag(pre, "ZF")
      [] i.opcode = 227 -> pre.cx = 0

\* entry k of the run is a LOOP whose target is the LOOP itself
LoopSelf(k) ==
    /\ log[k].opcode = 226
    /\ prog[calc_linear_address(log[k].cs0, log[k].ip0)].operand1_type = Relative8(254)

\* from entry k with CX = n >= 1 the LOOP runs n times in all: the first n-1
\* jump back to it, the n-th falls through with CX = 0
LoopRuns(k) ==
    \A j \in 0..(log[k].cx0 - 1) :
        k + j <= Len(log) =>
            /\ log[k + j].opcode = 226
            /\ log[k + j].ip0 = log[k].ip0
            /\ log[k + j].cx1 = log[k].cx0 - 1 - j
            /\ log[k + j].ip1 = IF j = log[k].cx0 - 1
                                THEN wrapping_add(log[k].ip0, 2) ELSE log[k].ip0

\* C30: LOOP, LOOPZ and LOOPNZ decrement CX by one modulo 2^16 whether or
\* not they jump, JCXZ leaves CX alone, and none of the four changes a flag;
\* LOOP jumps iff the decremented CX is not 0, LOOPZ iff also ZF = 1, LOOPNZ
\* iff also ZF = 0, JCXZ iff CX = 0; so a LOOP to itself entered with
\* CX = n >= 1 falls through after exactly n executions, with CX = 0
C30_LoopFamily ==
    /\ IsLoopFamily =>
          /\ cpu.cx = IF i.opcode = 227 THEN pre.cx ELSE LoopCx
          /\ cpu.flags = pre.flags
          /\ cpu.jump <=> LoopShouldJump
          /\ cpu.ip = IF LoopShouldJump THEN ShortTarget(pre, i)
                      ELSE wrapping_add(pre.ip, i.size)
    /\ \A k \in 1..Len(log) : (LoopSelf(k) /\ log[k].cx0 >= 1) => LoopRuns(k)

\* a LOOP to itself entered with CX = 3 has run three times and fallen
\* through with CX = 0
C30_Witness ==
    \E k \in 1..Len(log) :
        /\ LoopSelf(k)
        /\ log[k].cx0 = 3
        /\ k + 2 <= Len(log)
        /\ log[k + 2].opcode = 226
        /\ log[k + 2].cx1 = 0
        /\ log[k + 2].ip1 = wrapping_add(log[k].ip0, 2)
        /\ log[k + 1].ip1 = log[k].ip0

\* LOOP entered with CX = 0: CX wraps to 0xFFFF and the jump is taken
LoopWraps == IsLoopFamily /\ i.opcode = 226 /\ pre.cx = 0 /\ cpu.cx = 65535 /\ cpu.jump

\* LOOPZ falls through with CX not 0 because ZF is clear
LoopzFallsOnZf ==
    IsLoopFamily /\ i.opcode = 225 /\ cpu.cx # 0 /\ ~cpu.jump /\ ~get_flag(pre, "ZF")

\* JCXZ has jumped with CX = 0
JcxzTaken == IsLoopFamily /\ i.opcode = 227 /\ cpu.jump /\ cpu.cx = 0

IsJcc == Returned /\ i.opcode \in 96..127

\* the branch decision of the Jcc with opcode op in the Cpu the last call
\* started from
JccDecision(op) ==
    execute_instruction(pre, [i EXCEPT !.opcode = op], cpu.pending_interrupt).jump

\* the opcode 16 above or below, and the opcode of the opposite condition
JccMirror == IF i.opcode >= 112 THEN i.opcode - 16 ELSE i.opcode + 16
JccOpposite == IF i.opcode % 2 = 0 THEN i.opcode + 1 ELSE i.opcode - 1

\* C31: opcodes 0x60+k and 0x70+k take the same decision; of the conditions
\* 2j and 2j+1 exactly one is true; a taken Jcc sets IP to
\* (IP + size + sign-extended rel8) mod 2^16 and returns OkayJump, a Jcc not
\* taken sets IP to IP + size and returns Okay; no flag changes
C31_Jcc ==
    IsJcc =>
        /\ JccDecision(JccMirror) = cpu.jump
        /\ JccDecision(JccOpposite) = ~cpu.jump
        /\ cpu.jump =>
              /\ cpu.ip = (pre.ip + i.size + i.operand1_type.v
                             + (IF i.operand1_type.v >= 128 THEN W16 - 256 ELSE 0)) % W16
              /\ result = "OkayJump"
        /\ ~cpu.jump =>
              /\ cpu.ip = (pre.ip + i.size) % W16
              /\ result = "Okay"
        /\ cpu.flags = pre.flags

\* opcode 0x6E (the mirror of JLE) has jumped backward over the start of the
\* segment on ZF = 0, SF # OF
C31_Witness ==
    /\ IsJcc
    /\ i.opcode = 110
    /\ cpu.jump
    /\ ~get_flag(pre, "ZF")
    /\ get_flag(pre, "SF") # get_flag(pre, "OF")
    /\ i.operand1_type.v = 128
    /\ pre.ip = 256
    /\ cpu.ip = 130

\* a Jcc not taken at the end of the segment: IP wraps to 0
JccFallsThroughWrap == IsJcc /\ ~cpu.jump /\ pre.ip = 65534 /\ cpu.ip = 0

\* the bus addresses the last call read and wrote
ReadAddrs == { cpu.trace[k].a : k \in EventsNamed(cpu, "read") }
WriteAddrs == { cpu.trace[k].a : k \in EventsNamed(cpu, "write") }

\* the addresses of one string element at seg:off in the Cpu the call started
\* from
ElementAddrs(seg, off) ==
    { calc_linear_address(SegmentValue(pre, seg), off) }
    \cup (IF IsWideString(i.mnemonic)
          THEN { calc_linear_address(SegmentValue(pre, seg), wrapping_add(off, 1)) }
          ELSE {})

\* the element at ES:DI, and the element at SI in DS or in the override's
\* segment
DestElement == ElementAddrs("ES", pre.di)
SourceElement == ElementAddrs(IF i.segment_override = "None" THEN "DS"
                              ELSE i.segment_override, pre.si)

StringBodyRan == Returned /\ i.mnemonic \in StringMnemonics /\ Happened(cpu, "body")

\* C32: a segment override applies to the DS:SI operand of a string
\* instruction only: STOS and SCAS access ES:DI, MOVS writes and CMPS reads
\* its second operand at ES:DI whatever the override, and the source of
\* MOVS, CMPS and LODS is read in the override's segment instead of DS
C32_StringOverride ==
    StringBodyRan =>
        CASE i.mnemonic \in {"STOSB", "STOSW"} ->
               WriteAddrs = DestElement /\ ReadAddrs = {}
          [] i.mnemonic \in {"SCASB", "SCASW"} ->
               ReadAddrs = DestElement /\ WriteAddrs = {}
          [] i.mnemonic \in {"MOVSB", "MOVSW"} ->
               WriteAddrs = DestElement /\ ReadAddrs = SourceElement
          [] i.mnemonic \in {"CMPSB", "CMPSW"} ->
               ReadAddrs = SourceElement \cup DestElement /\ WriteAddrs = {}
          [] i.mnemonic \in {"LODSB", "LODSW"} ->
               ReadAddrs = SourceElement /\ WriteAddrs = {}

\* SCASW under a CS override has read its word at ES:DI, where CS:DI is
\* another address
C32_Witness ==
    /\ StringBodyRan
    /\ i.mnemonic = "SCASW"
    /\ i.segment_override = "CS"
    /\ ReadAddrs = DestElement
    /\ ElementAddrs("CS", pre.di) \cap ReadAddrs = {}

\* MOVSB under an SS override has read SS:SI and written ES:DI
MovsOverridden ==
    /\ StringBodyRan
    /\ i.mnemonic = "MOVSB"
    /\ i.segment_override = "SS"
    /\ ReadAddrs = { calc_linear_address(pre.ss, pre.si) }
    /\ WriteAddrs = { calc_linear_address(pre.es, pre.di) }
    /\ calc_linear_address(pre.ss, pre.si) # calc_linear_address(pre.ds, pre.si)

\* entry k is a call of a REP-prefixed MOVS, STOS or LODS that returned
RepRunCall(k) ==
    /\ log[k].kind = "exec" /\ log[k].rep /\ log[k].res # "Panic"
    /\ log[k].mnemonic \in StringMnemonicsRep

\* entry j is the delivery of an interrupt or the handler's IRET
HandlerEntry(j) == log[j].kind = "intr" \/ log[j].mnemonic = "IRET"

\* entries k0..k are calls of one REP instruction, with nothing between them
\* but interrupts served by a bare IRET
SameRepRun(k0, k) ==
    /\ k0 <= k /\ RepRunCall(k0) /\ RepRunCall(k)
    /\ \A j \in k0..k :
          \/ HandlerEntry(j)
          \/ /\ RepRunCall(j) /\ log[j].opcode = log[k0].opcode
             /\ log[j].cs0 = log[k0].cs0 /\ log[j].ip0 = log[k0].ip0

\* bodies executed by the calls k0..k
BodiesSoFar(k0, k) == Cardinality({ j \in k0..k : RepRunCall(j) /\ log[j].bodies > 0 })

\* how far, modulo 2^16, n bodies of the instruction of entry k0 move an
\* index register
Moved(k0, n) ==
    (n * (IF log[k0].df0 THEN W16 - (IF IsWideString(log[k0].mnemonic) THEN 2 ELSE 1)
          ELSE (IF IsWideString(log[k0].mnemonic) THEN 2 ELSE 1))) % W16

UsesSi(mn) == mn \in {"MOVSB", "MOVSW", "LODSB", "LODSW"}
UsesDi(mn) == mn \in {"MOVSB", "MOVSW", "STOSB", "STOSW"}

\* C34: at every instruction boundary of a REP MOVS, STOS or LODS, whether
\* it goes on, has ended or was interrupted and resumed, CX plus the bodies
\* executed so far is the initial CX, and SI and DI have moved by that many
\* elements in the direction of DF
C34_RepProgress ==
    \A k0 \in 1..Len(log) : \A k \in k0..Len(log) :
        SameRepRun(k0, k) =>
            /\ log[k].cx1 + BodiesSoFar(k0, k) = log[k0].cx0
            /\ \A j \in k0..k : log[j].bodies <= 1
            /\ log[k].regs1[7] =
                 IF UsesSi(log[k0].mnemonic)
                 THEN (log[k0].regs0[7] + Moved(k0, BodiesSoFar(k0, k))) % W16
                 ELSE log[k0].regs0[7]
            /\ log[k].regs1[8] =
                 IF UsesDi(log[k0].mnemonic)
                 THEN (log[k0].regs0[8] + Moved(k0, BodiesSoFar(k0, k))) % W16
                 ELSE log[k0].regs0[8]

\* REP MOVSB with CX = 2 was interrupted after one byte, the handler
\* returned, and the second call copied the second byte: CX = 0, SI and DI
\* two bytes on
C34_Witness ==
    /\ Len(log) >= 4
    /\ SameRepRun(1, 4)
    /\ log[1].mnemonic = "MOVSB" /\ log[1].cx0 = 2 /\ log[1].rpti /\ ~log[1].df0
    /\ log[2].kind = "intr"
    /\ log[3].mnemonic = "IRET"
    /\ log[4].cx1 = 0
    /\ BodiesSoFar(1, 4) = 2
    /\ log[4].regs1[7] = log[1].regs0[7] + 2
    /\ log[4].regs1[8] = log[1].regs0[8] + 2

\* REP STOSW backward, interrupted on its last element: DI two bytes down
StosBackward ==
    /\ Len(log) >= 1 /\ RepRunCall(1)
    /\ log[1].mnemonic = "STOSW" /\ log[1].df0 /\ log[1].rpti
    /\ log[1].cx0 = 1 /\ log[1].cx1 = 0
    /\ log[1].regs1[8] = log[1].regs0[8] - 2

\* the instructions whose arm loads IP (or CS:IP) unconditionally
IsTransfer ==
    /\ Returned
    /\ i.mnemonic \in {"CALL", "CALLF", "JMP", "JMPF", "RETN", "RETF", "IRET", "INT", "INT3"}

\* the register-operand forms of 0xFE CALLF and 0xFE JMPF
IsFeFarRegister ==
    /\ IsTransfer
    /\ i.opcode = 254 /\ i.mnemonic \in {"CALLF", "JMPF"}
    /\ i.operand1_type.t = "Register8"

\* the 16-bit register those forms copy to IP
FeFarTarget == get_register16(pre, reg8to16(i.operand1_type.r))

\* C33: every arm that loads IP also marks the instruction as a jump: after
\* a control transfer the result is OkayJump, and after the register forms
\* of 0xFE CALLF and 0xFE JMPF IP is exactly the register's value
C33_TransferMarksJump ==
    IsTransfer =>
        /\ cpu.jump
        /\ result = "OkayJump"
        /\ IsFeFarRegister => cpu.ip = FeFarTarget

\* the same for every transfer but the two register forms
TransferMarksJumpElsewhere ==
    (IsTransfer /\ ~IsFeFarRegister) => (cpu.jump /\ result = "OkayJump")

\* a register form of 0xFE CALLF or JMPF has returned Okay with IP two
\* bytes past the register's value
FeFarRegisterAdvanced ==
    /\ IsFeFarRegister
    /\ ~cpu.jump
    /\ result = "Okay"
    /\ cpu.ip = wrapping_add(FeFarTarget, i.size)

\* the arms that call biu_queue_flush themselves: CALLF 0x9A, RETN, CALL
\* rel16, JMP FAR 0xEA, and CALL, CALLF, JMP, JMPF under 0xFE and 0xFF
FlushesDirectly ==
    /\ Returned
    /\ \/ i.opcode \in {154, 194, 195, 232, 234}
       \/ i.opcode \in {254, 255} /\ i.mnemonic \in {"CALL", "CALLF", "JMP", "JMPF"}

\* flush event k of the last call comes after a suspend event of an earlier
\* cycle, with no other flush between the two
FetchSuspendedAt(k) ==
    \E j \in EventsNamed(cpu, "suspend") :
        /\ j < k
        /\ cpu.trace[j].cyc < cpu.trace[k].cyc
        /\ \A f \in EventsNamed(cpu, "flush") : ~(j < f /\ f < k)

\* C35: in every arm that calls biu_queue_flush directly, biu_suspend_fetch
\* was called earlier in the instruction and at least one cycle passed
\* between the two: the queue is not flushed while code fetch is running
C35_SuspendBeforeFlush ==
    FlushesDirectly => \A k \in EventsNamed(cpu, "flush") : FetchSuspendedAt(k)

\* RETN has suspended the fetch, spent one cycle and flushed the queue
C35_Witness ==
    /\ FlushesDirectly
    /\ i.opcode = 195
    /\ \E k \in EventsNamed(cpu, "flush") :
          /\ FetchSuspendedAt(k)
          /\ \E j \in EventsNamed(cpu, "suspend") :
                j < k /\ cpu.trace[k].cyc = cpu.trace[j].cyc + 1

\* the register form of 0xFE JMPF has flushed four cycles after suspending
FeJmpfFlushed ==
    /\ FlushesDirectly
    /\ i.opcode = 254 /\ i.mnemonic = "JMPF" /\ i.operand1_type.t = "Register8"
    /\ \E k \in EventsNamed(cpu, "flush") : \E j \in EventsNamed(cpu, "suspend") :
          j < k /\ cpu.trace[k].cyc = cpu.trace[j].cyc + 4

\* every flush of every instruction, the helpers' included
SuspendBeforeEveryFlush ==
    Returned => \A k \in EventsNamed(cpu, "flush") : FetchSuspendedAt(k)

\* DIV or IDIV has raised DivideError
DivideErrorRaised ==
    /\ Returned
    /\ i.opcode \in {246, 247} /\ i.mnemonic \in {"DIV", "IDIV"}
    /\ cpu.exception = "DivideError"

\* C36: when DIV or IDIV raises DivideError neither quotient nor remainder
\* is written: AX (AL and AH) and, in the 16-bit form, DX are as before the
\* instruction; IP is advanced past the instruction unless it carries a REP
\* prefix
C36_DivideErrorWritesNothing ==
    DivideErrorRaised =>
        /\ cpu.ax = pre.ax
        /\ cpu.dx = pre.dx
        /\ ~HasRepPrefix(i) => cpu.ip = wrapping_add(pre.ip, i.size)

\* DIV CX with DX:AX = 0001:FFFF and CX = 1: the quotient does not fit, and
\* AX and DX are those of the dividend, IP is past the instruction
C36_Witness ==
    /\ DivideErrorRaised
    /\ i.opcode = 247 /\ i.mnemonic = "DIV" /\ ~HasRepPrefix(i)
    /\ i.operand1_type = Register16("CX")
    /\ pre.cx = 1 /\ pre.dx = 1 /\ pre.ax = 65535
    /\ cpu.ax = 65535 /\ cpu.dx = 1
    /\ cpu.ip = wrapping_add(pre.ip, 2)

\* IDIV CL by zero
IdivByZero ==
    /\ DivideErrorRaised
    /\ i.opcode = 246 /\ i.mnemonic = "IDIV" /\ pre.cx = 0
    /\ i.operand1_type = Register8("CL")
    /\ cpu.ax = pre.ax

\* a division that succeeds writes quotient and remainder
DivSucceeds ==
    /\ Returned /\ i.opcode = 247 /\ i.mnemonic = "DIV"
    /\ cpu.exception # "DivideError"
    /\ cpu.ax # pre.ax

\* a CALL of one of the six forms was executed; the call may have panicked
IsCallForm ==
    /\ result # "None"
    /\ IsCall /\ i.opcode \in {154, 232, 254, 255}
    /\ i.operand1_type.t \in {"FarAddress", "Relative16", "AddressingMode",
                              "Register8", "Register16"}

\* another sum of the arm overflows: rel16 + size as i16 under 0xE8, the
\* offset of the segment byte under 0xFE CALLF
OtherSumOverflows ==
    \/ i.opcode = 232 /\ AsI16(i.operand1_type.v) + i.size > 32767
    \/ /\ i.opcode = 254 /\ i.mnemonic = "CALLF" /\ IsMem(i.operand1_type)
       /\ EaOffset(pre, i.operand1_type) + 2 >= W16

ReturnOffset == (pre.ip + i.size) % W16

\* the value of the last push of the call: a word, or a byte under 0xFE
LastPush ==
    cpu.trace[CHOOSE k \in EventsNamed(cpu, "push") \cup EventsNamed(cpu, "push8") :
                \A j \in EventsNamed(cpu, "push") \cup EventsNamed(cpu, "push8") : j <= k].b

\* the return offset is the last value a CALL that returned has pushed
ReturnOffsetPushed ==
    /\ Happened(cpu, "push") \/ Happened(cpu, "push8")
    /\ LastPush = IF i.opcode = 254 THEN ReturnOffset % 256 ELSE ReturnOffset

\* C37: every CALL form pushes (IP + size) mod 2^16 as return offset, also
\* when IP + size exceeds 0xFFFF: the sum wraps, the call does not abort
C37_ReturnOffsetWraps ==
    (IsCallForm /\ ~OtherSumOverflows) =>
        /\ result # "Panic"
        /\ ReturnOffsetPushed

\* the same for the calls that return
ReturnOffsetWrapsIfReturned ==
    (IsCallForm /\ Returned) => ReturnOffsetPushed

\* CALLF ptr16:16 at IP = 0xFFFE has panicked on IP + size
CallfPanicsAtSegmentEnd ==
    /\ IsCallForm /\ ~OtherSumOverflows
    /\ i.opcode = 154 /\ pre.ip = 65534 /\ overflow_checks
    /\ result = "Panic"

\* without overflow checks the same CALLF pushes the wrapped offset 3
CallfWrapsAtSegmentEnd ==
    /\ IsCallForm /\ Returned
    /\ i.opcode = 154 /\ pre.ip = 65534 /\ ~overflow_checks
    /\ LastPush = 3

\* CALL rel16 computes its return offset with wrapping_add: no panic
CallRel16NeverPanics ==
    (IsCallForm /\ ~OtherSumOverflows /\ i.opcode = 232) => result # "Panic"

\* C38: on every return rep_init is true only if in_rep is true (when
\* in_rep is false at the epilogue rep_init is false); when the result is
\* OkayRep, rep_init is true and CS:IP are those at entry, so that the next
\* call runs the same REP-prefixed instruction again
C38_RepInit ==
    Returned =>
        /\ cpu.rep_init => cpu.in_rep
        /\ ~cpu.in_rep => ~cpu.rep_init
        /\ result = "OkayRep" =>
              /\ cpu.rep_init
              /\ cpu.ip = pre.ip /\ cpu.cs = pre.cs
              /\ HasRepPrefix(i)

\* the call that ends a repeat entered with rep_init set returns with in_rep
\* and rep_init both false
C38_Witness ==
    /\ Returned
    /\ RepString(i)
    /\ pre.rep_init /\ pre.in_rep
    /\ Happened(cpu, "body")
    /\ ~cpu.in_rep /\ ~cpu.rep_init
    /\ result = "Okay"

\* a repeat that goes on: OkayRep, rep_init set, IP at the instruction
RepGoesOn ==
    /\ Returned /\ RepString(i)
    /\ result = "OkayRep" /\ cpu.rep_init /\ cpu.in_rep
    /\ cpu.ip = pre.ip /\ cpu.cx > 0

====
